---- MODULE Spec2Model ----
(***************************************************************************)
(* ros2_snapshot: the specification reconciler of snapshot/snapshot.py and *)
(* the fuzzy process matcher of snapshot/builders/node_builder.py.         *)
(*                                                                         *)
(* A Python str is a tuple of one-character strings, so that split, "in"   *)
(* (substring), sorted() and string concatenation are computed as the code *)
(* computes them.  A Python dict is a tuple of <<key, value>> pairs in     *)
(* insertion order.  ROS type names are only ever compared for equality    *)
(* and are plain strings.                                                  *)
(***************************************************************************)
EXTENDS Integers, Sequences, FiniteSets, TLC

VARIABLES
    \* ---- specification reconciler (ROSSnapshot) ----
    node_specs,        \* NODE_SPECIFICATION bank: spec name -> NodeSpecification
    node_bank,         \* node builders in bank order: observed I/O of each node
    bank_builders,     \* PARAMETER/ACTION/TOPIC/SERVICE bank: name -> construct_type
    node_idx,          \* position of the loop of _validate_and_update_models
    is_valid,          \* per node: what _validate_node_builder returned
    matched_calls,     \* per node: the categories _match_token_types ran on
    unmatched_log,     \* per node: the names logged as "unmatched data"
    unmatched_nodes,   \* self._unmatched_nodes
    learned,           \* per spec: the nodes _update_node_specification ran for
    exited,            \* sys.exit(-1) was reached
    \* ---- one call of _match_token_types on its own ----
    match_in,          \* its arguments: io_names, io_builders, spec_types
    match_out,         \* what it returned and the io_names it filled in
    \* ---- process matching (NodeBuilder) ----
    processes,         \* NodeBuilder.__processes: the snapshot, in dict order
    builders,          \* node builders: name, namespace, node, _process_dict
    last_call,         \* the latest call of get_node_pid: arguments, outcome
    telemetry,         \* per builder: what the executable_* accessors returned
    \* ---- update_attributes on one entity ----
    entity,            \* a metamodel entity: name, one data field, version
    entity_before,     \* the entity as the last update_attributes call found it
    kwargs,            \* the keyword arguments of the last update_attributes call
    update_calls,      \* number of update_attributes calls made
    \* ---- lookups in one Bank ----
    bank_kind,         \* the Bank class
    names_to_metamodels, \* _BankMetamodel.names_to_metamodels, in dict order
    lookups,           \* the __getitem__ calls made: key, what was returned
    \* ---- one snapshot run ----
    feed,              \* what the ROS graph API reports: the nodes, in order
    system_info,       \* what collect_system_info returned
    bank_state,        \* the builders made, and each bank builder's dict
    run_pc,            \* where ROSSnapshot.snapshot is
    step,              \* index of the next bank to prepare or extract
    prepared_banks,    \* the bank builders whose prepare() has returned
    model_banks,       \* per bank: key and name of each extracted entity
    \* ---- the topic builders of one ActionBuilder ----
    topic_names_to_builders,          \* ActionBuilder._topic_names_to_builders
    topic_name_suffixes_to_builders,  \* ActionBuilder._topic_name_suffixes_to_builders
    validated,         \* what validate_action_topic_builders returned, if called
    action_node_names, \* the client and server node names gathered, if gathered
    \* ---- the candidate test of get_node_pid on one process ----
    candidate_check,   \* the process, namespace and node name; the outcome
    \* ---- the Filter classes ----
    filter_flags,      \* Filter.FILTER_OUT_DEBUG and Filter.FILTER_OUT_TF
    filter_added,      \* names added to NodeFilter.BASE_EXCLUSIONS
    filter_instance,   \* per class: the INSTANCE attribute set on the class itself
    filter_log,        \* the get_filter and should_filter_out calls made
    \* ---- timeout_call_list_params ----
    wait_pc,           \* where the main flow is in timeout_call_list_params
    worker,            \* the background thread: not started, running, finished, raised
    result_holder,     \* result_holder[0]
    wait_result,       \* the result local of the main flow, and what was returned
    \* ---- main ----
    options,           \* the output formats asked for on the command line
    main_pc,           \* where main is
    snapshot_result,   \* how snapshot.snapshot() ended
    specification_update,  \* ROSSnapshot.specification_update
    persisted          \* the (format, model) pairs saved

recVars == <<node_specs, node_bank, bank_builders, node_idx, is_valid,
             matched_calls, unmatched_log, unmatched_nodes, learned, exited>>

matchVars == <<match_in, match_out>>

pidVars == <<processes, builders, last_call, telemetry>>

entVars == <<entity, entity_before, kwargs, update_calls>>

bankVars == <<bank_kind, names_to_metamodels, lookups>>

runVars == <<feed, system_info, bank_state, run_pc, step, prepared_banks, model_banks>>

actVars == <<topic_names_to_builders, topic_name_suffixes_to_builders, validated,
             action_node_names>>

candVars == <<candidate_check>>

filtVars == <<filter_flags, filter_added, filter_instance, filter_log>>

waitVars == <<wait_pc, worker, result_holder, wait_result>>

mainVars == <<options, main_pc, snapshot_result, specification_update, persisted>>

moreVars == <<candVars, filtVars, waitVars, mainVars>>

laterVars == <<entVars, bankVars, runVars, actVars, moreVars>>

vars == <<recVars, matchVars, pidVars, laterVars>>

(***************************************************************************)
(* Python strings                                                          *)
(***************************************************************************)
\* The characters of the model in code-point order (sorted() compares code points).
CharOrder ==
    <<" ", "'", ",", "-", ".", "/", "0", "1", "2", "3", "4", "5", "6", "7",
      "8", "9", ":", "=", "U", "_", "a", "b", "c", "d", "e", "f", "g", "h",
      "i", "j", "k", "l", "m", "n", "o", "p", "q", "r", "s", "t", "u", "v",
      "w", "x", "y", "z">>

Ord(c) == CHOOSE i \in 1..Len(CharOrder) : CharOrder[i] = c

MinOf(S) == CHOOSE x \in S : \A y \in S : x <= y
MaxOf(S) == CHOOSE x \in S : \A y \in S : y <= x

\* a < b for two str
StrLess(a, b) ==
    LET n == IF Len(a) < Len(b) THEN Len(a) ELSE Len(b)
        diff == {i \in 1..n : a[i] # b[i]}
    IN  IF diff = {} THEN Len(a) < Len(b)
        ELSE Ord(a[MinOf(diff)]) < Ord(b[MinOf(diff)])

\* sorted(S) for a collection of distinct str
RECURSIVE SortedSeq(_)
SortedSeq(S) ==
    IF S = {} THEN <<>>
    ELSE LET m == CHOOSE x \in S : \A y \in S \ {x} : StrLess(x, y)
         IN  <<m>> \o SortedSeq(S \ {m})

\* sub in s
Contains(sub, s) ==
    \E i \in 0..(Len(s) - Len(sub)) : SubSeq(s, i + 1, i + Len(sub)) = sub

\* s.split(sep)[-1] for a one-character sep
LastSeg(s, sep) ==
    LET at == {i \in 1..Len(s) : s[i] = sep}
    IN  IF at = {} THEN s ELSE SubSeq(s, MaxOf(at) + 1, Len(s))

\* s.split(sep) for a one-character sep
RECURSIVE Split(_, _)
Split(s, sep) ==
    LET at == {i \in 1..Len(s) : s[i] = sep}
    IN  IF at = {} THEN <<s>>
        ELSE <<SubSeq(s, 1, MinOf(at) - 1)>>
                 \o Split(SubSeq(s, MinOf(at) + 1, Len(s)), sep)

Digit(n) == <<"0", "1", "2", "3", "4", "5", "6", "7", "8", "9">>[n + 1]

\* str(n) for a natural number
RECURSIVE IntStr(_)
IntStr(n) == IF n < 10 THEN <<Digit(n)>> ELSE IntStr(n \div 10) \o <<Digit(n % 10)>>

\* sep.join(items): items is any iterable of str; a str iterates as its characters
RECURSIVE JoinStr(_, _)
JoinStr(sep, items) ==
    IF Len(items) = 0 THEN <<>>
    ELSE IF Len(items) = 1 THEN items[1]
    ELSE items[1] \o sep \o JoinStr(sep, Tail(items))

\* iter(s) for a str s: its one-character strings
CharsOf(s) == [i \in DOMAIN s |-> <<s[i]>>]

Range(f) == {f[i] : i \in DOMAIN f}

(***************************************************************************)
(* Python dict and None                                                    *)
(***************************************************************************)
\* None where a str is expected (no str has a many-character element)
NoneStr == <<"None">>

DictKeys(d) == {d[i][1] : i \in DOMAIN d}
DictGet(d, k) == d[CHOOSE i \in DOMAIN d : d[i][1] = k][2]
\* d[k] = v
DictPut(d, k, v) ==
    IF k \in DictKeys(d)
    THEN [i \in DOMAIN d |-> IF d[i][1] = k THEN <<k, v>> ELSE d[i]]
    ELSE Append(d, <<k, v>>)
\* d.update(e)
RECURSIVE DictUpdate(_, _)
DictUpdate(d, e) ==
    IF e = <<>> THEN d ELSE DictUpdate(DictPut(d, e[1][1], e[1][2]), Tail(e))

\* A category of a NodeSpecification is Optional[Dict]: None, or a dict
NoneCat == [set |-> FALSE, data |-> <<>>]
DictCat(d) == [set |-> TRUE, data |-> d]

(***************************************************************************)
(* Specification reconciler: token match (validate)                        *)
(***************************************************************************)
\* (mutation) no specification entry is looked for beyond the item's own token
FirstOfTypeNone(tests, spec_types, io_type) == NoneStr

\* first test in tests (already sorted) with spec_types[test] == io_type, else None
FirstOfType(tests, spec_types, io_type) ==
    LET hits == {i \in DOMAIN tests : DictGet(spec_types, tests[i]) = io_type}
    IN  IF hits = {} THEN NoneStr ELSE tests[MinOf(hits)]

\* the io_name.split("/")[-1] of the match and learn loops
TrailingToken(io_name) == LastSeg(io_name, "/")

\* (mutation) the loop visits io_names in insertion order, without sorted()
MatchOrderUnsorted(io_names) == io_names

\* the order in which the loop of _match_token_types visits io_names
MatchOrder(io_names) == SortedSeq(Range(io_names))

\* one iteration of the loop "for io_name in sorted(io_names)"
MatchItem(st, io_name, io_builders, spec_types) ==
    LET io_type == io_builders[io_name]
        token == TrailingToken(io_name)
        available_tokens == st.available_tokens
    IN  IF token \in available_tokens /\ io_type = DictGet(spec_types, token)
        THEN [st EXCEPT !.io_names[io_name] = token,
                        !.available_tokens = available_tokens \ {token}]
        ELSE LET potential == {ss \in available_tokens : Contains(token, ss)}
                 remaining == available_tokens \ potential
                 first == FirstOfType(SortedSeq(potential), spec_types, io_type)
                 test == IF first # NoneStr THEN first
                         ELSE FirstOfType(SortedSeq(remaining), spec_types, io_type)
             IN  IF test # NoneStr
                 THEN [st EXCEPT !.io_names[io_name] = test,
                                 !.available_tokens = available_tokens \ {test}]
                 ELSE [st EXCEPT !.io_is_valid = FALSE,
                                 !.unmatched = @ \cup {io_name}]

RECURSIVE MatchLoop(_, _, _, _)
MatchLoop(st, order, io_builders, spec_types) ==
    IF order = <<>> THEN st
    ELSE MatchLoop(MatchItem(st, order[1], io_builders, spec_types),
                   Tail(order), io_builders, spec_types)

\* _match_token_types(node_name, io_names, io_builders, spec_types):
\*   ret is "True", "False" or "None" (the function falls off its end when
\*   spec_types is None and io_names is empty)
MatchTokenTypes(io_names, io_builders, spec_types) ==
    LET none == [n \in Range(io_names) |-> NoneStr]
    IN  IF ~spec_types.set
        THEN [ret |-> IF Len(io_names) > 0 THEN "False" ELSE "None",
              io_names |-> none, unmatched |-> {}]
        ELSE LET st == MatchLoop([io_names |-> none,
                                  available_tokens |-> DictKeys(spec_types.data),
                                  io_is_valid |-> TRUE, unmatched |-> {}],
                                 MatchOrder(io_names), io_builders, spec_types.data)
             IN  [ret |-> IF st.io_is_valid THEN "True" ELSE "False",
                  io_names |-> st.io_names, unmatched |-> st.unmatched]

\* The calls of _validate_node_builder, in order: the specification category,
\* the node builder's list and the bank the item builders come from.
ValidateCalls ==
    << <<"parameters", "parameter_names", "PARAMETER">>,
       <<"parameters", "parameter_names", "PARAMETER">>,
       <<"action_clients", "action_clients", "ACTION">>,
       <<"action_servers", "action_servers", "ACTION">>,
       <<"published_topics", "published_topic_names", "TOPIC">>,
       <<"subscribed_topics", "subscribed_topic_names", "TOPIC">>,
       <<"services_provided", "service_names_with_remap", "SERVICE">> >>

\* Python's "a and b()" on the values True, False, None: b is called only if a is True
RECURSIVE ValidateChain(_, _, _, _, _)
ValidateChain(acc, calls, node_builder, node_spec, banks) ==
    IF calls = <<>> THEN acc
    ELSE IF acc.ret # "True" THEN acc
    ELSE LET c == calls[1]
             m == MatchTokenTypes(node_builder[c[2]], banks[c[3]], node_spec[c[1]])
         IN  ValidateChain([ret |-> m.ret,
                            calls |-> Append(acc.calls, c[1]),
                            unmatched |-> acc.unmatched \cup m.unmatched],
                           Tail(calls), node_builder, node_spec, banks)

\* _validate_node_builder(node_name, node_builder, node_spec), for a node_spec
\* whose parameters is not None (len(None) raises TypeError)
ValidateNodeBuilder(node_builder, node_spec, banks) ==
    LET ok == ~(Len(node_spec.parameters.data) < Len(node_builder.parameter_names))
    IN  ValidateChain([ret |-> IF ok THEN "True" ELSE "False",
                       calls |-> <<>>, unmatched |-> {}],
                      ValidateCalls, node_builder, node_spec, banks)

(***************************************************************************)
(* Specification reconciler: learn                                         *)
(***************************************************************************)
\* one iteration of the loop of _update_node_specification_data
LearnItem(st, spec_name, item_builders) ==
    LET spec_type == item_builders[spec_name]
        spec_token == TrailingToken(spec_name)
    IN  IF st.raised THEN st
        ELSE IF spec_token \in DictKeys(st.spec_data)
        THEN IF spec_token \notin DOMAIN st.token_map
             THEN [st EXCEPT !.raised = TRUE]       \* KeyError: token_map[spec_token]
             ELSE LET n == st.token_map[spec_token] + 1
                      suffixed == spec_token \o <<"_">> \o IntStr(n)
                  IN  [st EXCEPT !.token_map[spec_token] = n,
                                 !.spec_data = DictPut(@, suffixed, spec_type)]
        ELSE [st EXCEPT !.token_map = (spec_token :> 0) @@ @,
                        !.spec_data = DictPut(@, spec_token, spec_type)]

RECURSIVE LearnLoop(_, _, _)
LearnLoop(st, order, item_builders) ==
    IF order = <<>> THEN st
    ELSE LearnLoop(LearnItem(st, order[1], item_builders), Tail(order), item_builders)

\* _update_node_specification_data(spec_data, builder_data, item_builders):
\*   the dict as it is left (it is updated in place) and whether KeyError was raised
UpdateNodeSpecificationData(spec_data, builder_data, item_builders) ==
    LET st == LearnLoop([spec_data |-> spec_data,
                         token_map |-> [k \in DictKeys(spec_data) |-> 0],
                         raised |-> FALSE],
                        SortedSeq(Range(builder_data)), item_builders)
    IN  [spec_data |-> st.spec_data, raised |-> st.raised]

\* The categories of _update_node_specification after the parameters, in order
LearnCalls ==
    << <<"action_clients", "action_clients", "ACTION">>,
       <<"action_servers", "action_servers", "ACTION">>,
       <<"published_topics", "published_topic_names", "TOPIC">>,
       <<"subscribed_topics", "subscribed_topic_names", "TOPIC">>,
       <<"services_provided", "service_names_with_remap", "SERVICE">> >>

\* The two passes over the parameters: "parameters" and "set_parameters" are the
\* same dict when node_spec.parameters is not None, two fresh dicts when it is.
\*   attached: the value node_spec.parameters has (updated in place or untouched)
\*   local:    the dict later handed to update_attributes
\* p1 is the first pass, p2 the second, old the value of node_spec.parameters.
MergeParameterPasses(old, p1, p2) ==
    IF p1.raised
    THEN [raised |-> TRUE, local |-> p1.spec_data,
          attached |-> IF old.set THEN DictCat(p1.spec_data) ELSE old]
    ELSE IF p2.raised
    THEN [raised |-> TRUE, local |-> p1.spec_data,
          attached |-> IF old.set THEN DictCat(p2.spec_data) ELSE old]
    ELSE IF old.set
    THEN [raised |-> FALSE, local |-> DictUpdate(p2.spec_data, p2.spec_data),
          attached |-> DictCat(DictUpdate(p2.spec_data, p2.spec_data))]
    ELSE [raised |-> FALSE, local |-> DictUpdate(p1.spec_data, p2.spec_data),
          attached |-> old]

SecondParameterPass(old, p1, parameter_names, item_builders) ==
    MergeParameterPasses(
        old, p1,
        UpdateNodeSpecificationData(IF old.set THEN p1.spec_data ELSE <<>>,
                                    parameter_names, item_builders))

LearnParameters(node_spec, node_builder, banks) ==
    SecondParameterPass(
        node_spec.parameters,
        UpdateNodeSpecificationData(node_spec.parameters.data,
                                    node_builder.parameter_names, banks["PARAMETER"]),
        node_builder.parameter_names, banks["PARAMETER"])

\* The remaining categories; acc.spec is node_spec as the in-place updates leave
\* it, acc.local the dicts to hand to update_attributes.
LearnCategory(acc, c, r) ==
    [raised |-> r.raised,
     spec |-> IF acc.spec[c[1]].set
              THEN [acc.spec EXCEPT ![c[1]] = DictCat(r.spec_data)]
              ELSE acc.spec,
     local |-> (c[1] :> r.spec_data) @@ acc.local]

RECURSIVE LearnCategories(_, _, _, _)
LearnCategories(acc, calls, node_builder, banks) ==
    IF calls = <<>> \/ acc.raised THEN acc
    ELSE LearnCategories(
             LearnCategory(acc, calls[1],
                           UpdateNodeSpecificationData(acc.spec[calls[1][1]].data,
                                                       node_builder[calls[1][2]],
                                                       banks[calls[1][3]])),
             Tail(calls), node_builder, banks)

\* update_attributes(source="ros_snapshot") on a source that is None, a str or a list
UpdateSource(source, value) ==
    IF source.kind = "none" THEN [kind |-> "str", v |-> <<value>>]
    ELSE IF source.kind = "str"
    THEN IF source.v = <<value>> THEN source
         ELSE [kind |-> "list", v |-> Append(source.v, value)]
    ELSE IF value \in Range(source.v) THEN source
         ELSE [source EXCEPT !.v = Append(@, value)]

\* (mutation) the equality shortcut of the other keys applied to version as well
UpdateVersionSkipEqual(version, incoming) ==
    IF version = incoming THEN version
    ELSE (IF version > incoming THEN version ELSE incoming) + 1

\* update_attributes(version=incoming) on an int version
UpdateVersion(version, incoming) ==
    (IF version > incoming THEN version ELSE incoming) + 1

\* (mutation) the final update_attributes call leaves validated as it was
LearnedSpecificationUnflagged(node_spec, r) ==
    IF r.raised THEN [raised |-> TRUE, node_spec |-> r.spec]
    ELSE [raised |-> FALSE,
          node_spec |-> [r.spec EXCEPT !.version = UpdateVersion(node_spec.version, 0)]]

\* the update_attributes call that ends _update_node_specification
LearnedSpecification(node_spec, r) ==
    IF r.raised THEN [raised |-> TRUE, node_spec |-> r.spec]
    ELSE [raised |-> FALSE,
          node_spec |->
              [validated |-> TRUE,
               source |-> UpdateSource(node_spec.source, "ros_snapshot"),
               version |-> UpdateVersion(node_spec.version, 0),
               parameters |-> DictCat(r.local["parameters"]),
               action_clients |-> DictCat(r.local["action_clients"]),
               action_servers |-> DictCat(r.local["action_servers"]),
               published_topics |-> DictCat(r.local["published_topics"]),
               subscribed_topics |-> DictCat(r.local["subscribed_topics"]),
               services_provided |-> DictCat(r.local["services_provided"])]]

LearnAfterParameters(node_spec, p, node_builder, banks) ==
    LearnCategories([raised |-> p.raised,
                     spec |-> [node_spec EXCEPT !.parameters = p.attached],
                     local |-> ("parameters" :> p.local)],
                    LearnCalls, node_builder, banks)

\* _update_node_specification(node_spec, node_builder):
\*   the node_spec it leaves, and whether an exception escaped
UpdateNodeSpecification(node_spec, node_builder, banks) ==
    LearnedSpecification(
        node_spec,
        LearnAfterParameters(node_spec,
                             LearnParameters(node_spec, node_builder, banks),
                             node_builder, banks))

(***************************************************************************)
(* Reconciler: the observed graph and the stored specifications            *)
(***************************************************************************)
\* names handed over by the discovery feed, and specification tokens
t_foo_out == <<"/", "f", "o", "o", "/", "o", "u", "t">>
t_bar_out == <<"/", "b", "a", "r", "/", "o", "u", "t">>
t_a_x == <<"/", "a", "/", "x">>
t_x == <<"/", "x">>
t_x_1 == <<"/", "x", "_", "1">>
t_a_x_1 == <<"/", "a", "/", "x", "_", "1">>
t_foo_in == <<"/", "f", "o", "o", "/", "i", "n">>
p_bar_thresh == <<"/", "b", "a", "r", "/", "t", "h", "r", "e", "s", "h">>
p_foo_p == <<"/", "f", "o", "o", "/", "p">>
a_foo_act == <<"/", "f", "o", "o", "/", "a", "c", "t">>
s_foo_srv == <<"/", "f", "o", "o", "/", "s", "r", "v">>
k_out == <<"o", "u", "t">>
k_x == <<"x">>
k_x_1 == <<"x", "_", "1">>
k_zzz == <<"z", "z", "z">>
k_in == <<"i", "n">>
k_thresh == <<"t", "h", "r", "e", "s", "h">>
k_p == <<"p">>
k_act == <<"a", "c", "t">>
k_srv == <<"s", "r", "v">>

\* ParameterBuilder.value_type: str(type(value)) with "<", ">", "type" and "'"
\* removed, e.g. "<class 'float'>" becomes "class float"
ValueType(python_type) ==
    CASE python_type = "float" -> "class float"
      [] python_type = "int" -> "class int"
      [] python_type = "str" -> "class str"

\* What the discovery feed reported: the ROS type of each topic, action and
\* service, and the Python type of each parameter value.
FeedTopics == (t_foo_out :> "T") @@ (t_bar_out :> "U") @@ (t_a_x :> "T")
              @@ (t_x :> "T") @@ (t_x_1 :> "T") @@ (t_foo_in :> "U")
              @@ (t_a_x_1 :> "U")
FeedParameters == (p_bar_thresh :> "float") @@ (p_foo_p :> "int")
FeedActions == (a_foo_act :> "A")
FeedServices == (s_foo_srv :> "S")

\* construct_type of every item builder, by bank
CollectedBanks ==
    ("TOPIC" :> FeedTopics)
    @@ ("PARAMETER" :> [n \in DOMAIN FeedParameters |-> ValueType(FeedParameters[n])])
    @@ ("ACTION" :> FeedActions)
    @@ ("SERVICE" :> FeedServices)

NoSpec == "None"       \* node_spec_remap is None: no specification for the executable
SpecName == "pkg/talker"

NodeParameterChoices == {<<>>, <<p_bar_thresh>>, <<p_foo_p, p_bar_thresh>>}
NodePublishedChoices == {<<>>, <<t_foo_out>>, <<t_x, t_a_x, t_x_1>>, <<t_foo_out, t_bar_out>>,
                         <<t_x, t_a_x_1, t_a_x>>}
NodeSubscribedChoices == {<<>>, <<t_foo_in>>}
NodeOtherChoices ==
    {[action_clients |-> <<>>, action_servers |-> <<>>, service_names_with_remap |-> <<>>],
     [action_clients |-> <<a_foo_act>>, action_servers |-> <<>>,
      service_names_with_remap |-> <<s_foo_srv>>],
     [action_clients |-> <<>>, action_servers |-> <<a_foo_act>>,
      service_names_with_remap |-> <<>>]}

NodeBuilderOf(spec, p, pub, sub, o) ==
    [spec |-> spec, node |-> NoSpec,
     parameter_names |-> p, published_topic_names |-> pub,
     subscribed_topic_names |-> sub, action_clients |-> o.action_clients,
     action_servers |-> o.action_servers,
     service_names_with_remap |-> o.service_names_with_remap]

\* the first node of the bank: any combination of the observed lists
FirstNodeBuilders ==
    {NodeBuilderOf(SpecName, p, pub, sub, o) :
        p \in NodeParameterChoices, pub \in NodePublishedChoices,
        sub \in NodeSubscribedChoices, o \in NodeOtherChoices}

\* the later nodes of the bank
LaterNodeBuilders ==
    LET none == [action_clients |-> <<>>, action_servers |-> <<>>,
                 service_names_with_remap |-> <<>>]
    IN  {NodeBuilderOf(NoSpec, <<>>, <<t_foo_out>>, <<>>, none),
         NodeBuilderOf(SpecName, <<>>, <<t_foo_out>>, <<>>, none),
         NodeBuilderOf(SpecName, <<p_bar_thresh>>, <<t_bar_out>>, <<t_foo_in>>, none)}

NumNodes == 2

SpecParameterChoices ==
    {NoneCat, DictCat(<<>>), DictCat(<< <<k_thresh, "class float">> >>),
     DictCat(<< <<k_p, "class str">>, <<k_thresh, "class float">> >>)}
SpecPublishedChoices ==
    {NoneCat, DictCat(<<>>), DictCat(<< <<k_out, "T">> >>),
     DictCat(<< <<k_x, "T">>, <<k_x_1, "U">> >>),
     DictCat(<< <<k_zzz, "U">>, <<k_out, "T">> >>)}
SpecOtherChoices ==
    {[subscribed_topics |-> NoneCat, action_clients |-> NoneCat,
      action_servers |-> NoneCat, services_provided |-> NoneCat],
     [subscribed_topics |-> DictCat(<<>>), action_clients |-> DictCat(<<>>),
      action_servers |-> DictCat(<<>>), services_provided |-> DictCat(<<>>)],
     [subscribed_topics |-> DictCat(<< <<k_in, "U">> >>),
      action_clients |-> DictCat(<< <<k_act, "A">> >>),
      action_servers |-> DictCat(<< <<k_act, "A">> >>),
      services_provided |-> DictCat(<< <<k_srv, "S">> >>)]}

\* A stored NodeSpecification: as the workspace modeler wrote it (unvalidated,
\* version 0) or as an earlier run or an editor left it.
StoredSpecs ==
    {[validated |-> v,
      source |-> IF v THEN [kind |-> "list", v |-> <<"workspace_modeler", "ros_snapshot">>]
                 ELSE [kind |-> "str", v |-> <<"workspace_modeler">>],
      version |-> IF v THEN 1 ELSE 0,
      parameters |-> p, published_topics |-> pub,
      subscribed_topics |-> o.subscribed_topics, action_clients |-> o.action_clients,
      action_servers |-> o.action_servers, services_provided |-> o.services_provided] :
        v \in BOOLEAN, p \in SpecParameterChoices, pub \in SpecPublishedChoices,
        o \in SpecOtherChoices}

Nodes == 1..NumNodes

(***************************************************************************)
(* Metamodel entities: _EntityMetamodel.update_attributes.                 *)
(* A field value is a tagged record [kind, v]: v is always a sequence of   *)
(* strings.  kind "none" is None, "str" a str, "int" any other scalar,     *)
(* "list" a list, "set" a set (order of v is irrelevant), "dict" a dict   *)
(* laid out flat as <<k1, v1, k2, v2, ...>>.                               *)
(***************************************************************************)
NoneVal == [kind |-> "none", v |-> <<>>]
StrVal(s) == [kind |-> "str", v |-> <<s>>]
Val(kind, q) == [kind |-> kind, v |-> q]

FlatKeys(q) == {q[i] : i \in {j \in DOMAIN q : j % 2 = 1}}
FlatGet(q, k) == q[(CHOOSE i \in DOMAIN q : i % 2 = 1 /\ q[i] = k) + 1]
FlatPut(q, k, x) ==
    IF k \in FlatKeys(q)
    THEN [i \in DOMAIN q |-> IF i > 1 /\ i % 2 = 0 /\ q[i - 1] = k THEN x ELSE q[i]]
    ELSE q \o <<k, x>>

RECURSIVE FlatUpdate(_, _)
FlatUpdate(q, e) ==
    IF e = <<>> THEN q
    ELSE FlatUpdate(FlatPut(q, e[1], e[2]), Tail(Tail(e)))

RECURSIVE SetUpdate(_, _)
SetUpdate(q, items) ==
    IF items = <<>> THEN q
    ELSE SetUpdate(IF Head(items) \in Range(q) THEN q ELSE Append(q, Head(items)),
                   Tail(items))

\* val == kwargs[key]
PyEq(a, b) ==
    /\ a.kind = b.kind
    /\ CASE a.kind = "set"  -> Range(a.v) = Range(b.v)
         [] a.kind = "dict" -> /\ FlatKeys(a.v) = FlatKeys(b.v)
                               /\ \A k \in FlatKeys(a.v) : FlatGet(a.v, k) = FlatGet(b.v, k)
         [] OTHER           -> a.v = b.v

\* the element a list receives from append(kwargs[key])
Element(inc) == IF inc.kind = "str" THEN inc.v[1] ELSE ToString(inc)

\* what iterating kwargs[key] yields
Iterated(inc) ==
    IF inc.kind = "dict"
    THEN [i \in 1..(Len(inc.v) \div 2) |-> inc.v[2 * i - 1]]
    ELSE inc.v

ListBranch(val, inc) ==
    IF inc.kind = "list" THEN [val |-> Val("list", val.v \o inc.v), raised |-> FALSE]
    ELSE IF Element(inc) \in Range(val.v) THEN [val |-> val, raised |-> FALSE]
    ELSE [val |-> Val("list", Append(val.v, Element(inc))), raised |-> FALSE]

DictBranch(val, inc) ==
    IF inc.kind = "dict" THEN [val |-> Val("dict", FlatUpdate(val.v, inc.v)), raised |-> FALSE]
    ELSE IF inc.kind = "int" \/ inc.v # <<>> THEN [val |-> val, raised |-> TRUE]
    ELSE [val |-> val, raised |-> FALSE]

SetBranch(val, inc) ==
    IF inc.kind = "int" THEN [val |-> val, raised |-> TRUE]
    ELSE [val |-> Val("set", SetUpdate(val.v, Iterated(inc))), raised |-> FALSE]

StrBranch(val, inc) ==
    IF inc.kind = "list" THEN [val |-> Val("list", val.v \o inc.v), raised |-> FALSE]
    ELSE [val |-> Val("list", Append(val.v, Element(inc))), raised |-> FALSE]

\* one key of update_attributes other than "version"
UpdateAttribute(val, inc) ==
    IF val.kind = "none" THEN [val |-> inc, raised |-> FALSE]
    ELSE IF PyEq(val, inc) THEN [val |-> val, raised |-> FALSE]
    ELSE IF inc.kind = "none" THEN [val |-> val, raised |-> FALSE]
    ELSE CASE val.kind = "list" -> ListBranch(val, inc)
           [] val.kind = "dict" -> DictBranch(val, inc)
           [] val.kind = "set"  -> SetBranch(val, inc)
           [] val.kind = "str"  -> StrBranch(val, inc)
           [] OTHER             -> [val |-> inc, raised |-> FALSE]

\* the "version" key: the stored version is an int, the incoming one an int or None
VersionAttribute(version, arg) ==
    IF arg.value.kind = "none" THEN version ELSE UpdateVersion(version, arg.n)

Kwarg(key, value, n) == [key |-> key, value |-> value, n |-> n]

SetField(e, key, r) ==
    IF key = "name" THEN [e EXCEPT !.name = r.val, !.raised = r.raised]
    ELSE [e EXCEPT !.data = r.val, !.raised = r.raised]

ApplyKwarg(e, arg) ==
    IF e.raised THEN e
    ELSE IF arg.key = "version"
         THEN [e EXCEPT !.version = VersionAttribute(e.version, arg)]
         ELSE SetField(e, arg.key,
                       UpdateAttribute(IF arg.key = "name" THEN e.name ELSE e.data,
                                       arg.value))

RECURSIVE UpdateAttributes(_, _)
UpdateAttributes(e, kw) ==
    IF kw = <<>> THEN e
    ELSE UpdateAttributes(ApplyKwarg(e, Head(kw)), Tail(kw))

MaxCalls == 2

DataValues ==
    { NoneVal, StrVal("a"), StrVal("b"), Val("int", <<"1">>),
      Val("list", <<>>), Val("list", <<"a">>), Val("list", <<"b">>),
      Val("set", <<"a">>), Val("set", <<"b">>),
      Val("dict", <<"a", "1">>), Val("dict", <<"a", "2">>), Val("dict", <<"b", "1">>) }

NameArgs == {Kwarg("name", x, 0) : x \in {NoneVal, StrVal("a"), StrVal("b")}}
DataArgs == {Kwarg("data", x, 0) : x \in DataValues}
VersionArgs ==
    {Kwarg("version", NoneVal, 0)} \cup {Kwarg("version", Val("int", <<"n">>), n) : n \in {0, 1, 3}}

KwargsChoices ==
    LET all == NameArgs \cup DataArgs \cup VersionArgs
    IN  {<<a>> : a \in all}
        \cup {<<a, b>> : a \in DataArgs \cup NameArgs, b \in VersionArgs}
        \cup {<<a, b>> : a \in NameArgs, b \in DataArgs}

NewEntity(name, data, version) ==
    [name |-> name, data |-> data, version |-> version, raised |-> FALSE]

EntityIdle ==
    /\ entity = NewEntity(NoneVal, NoneVal, 0)
    /\ entity_before = entity
    /\ kwargs = <<>>
    /\ update_calls = 0

(***************************************************************************)
(* Banks: _BankMetamodel.__getitem__ and the _create_entity of each Bank.  *)
(* An entity is [kind, name, id]: id tells one object from another.        *)
(***************************************************************************)
\* Bank class -> the entity class its _create_entity constructs
EntityKinds ==
    [NodeSpecificationBank |-> "NodeSpecification",
     PackageSpecificationBank |-> "PackageSpecification",
     TypeSpecificationBank |-> "TypeSpecification",
     TopicBank |-> "Topic", ServiceBank |-> "Service", MachineBank |-> "Machine",
     ParameterBank |-> "Parameter", NodeBank |-> "Node", ActionBank |-> "Action"]

BankKinds == DOMAIN EntityKinds

\* (mutation) _create_entity as the base class defines it: return None
CreateEntityNone(kind, name, id) == [kind |-> "NoneType", name |-> "", id |-> 0]

\* <Kind>(name=name)
CreateEntity(kind, name, id) == [kind |-> EntityKinds[kind], name |-> name, id |-> id]

BankKeys(bank) == {bank[i].key : i \in DOMAIN bank}
BankGet(bank, name) == bank[CHOOSE i \in DOMAIN bank : bank[i].key = name].entity

\* self.names_to_metamodels after __getitem__(name)
GetItemBank(kind, bank, name) ==
    IF name \notin BankKeys(bank)
    THEN Append(bank, [key |-> name, entity |-> CreateEntity(kind, name, Len(bank) + 1)])
    ELSE bank

\* what __getitem__(name) returns
GetItem(kind, bank, name) == BankGet(GetItemBank(kind, bank, name), name)

BankIdle ==
    /\ bank_kind = "none"
    /\ names_to_metamodels = <<>>
    /\ lookups = <<>>

(***************************************************************************)
(* The snapshot run at rest.                                               *)
(***************************************************************************)
\* BankType: the deployment banks
BankTypes == {"NODE", "TOPIC", "ACTION", "SERVICE", "PARAMETER", "MACHINE"}

\* collect_system_info before the first node
NoInfo == [actions |-> <<>>, nodes |-> <<>>, services |-> <<>>, topics |-> <<>>]

\* the bank builders of a new ROSModelBuilder
NoBanks == [made |-> <<>>, bank |-> [k \in BankTypes |-> <<>>]]

RunIdle ==
    /\ feed = <<>>
    /\ system_info = NoInfo
    /\ bank_state = NoBanks
    /\ run_pc = "idle"
    /\ step = 0
    /\ prepared_banks = {}
    /\ model_banks = <<>>

\* validate_action_topic_builders was not called
NotValidated == [called |-> FALSE, result |-> FALSE]

\* the client and server node names were not gathered
NotGathered == [called |-> FALSE, raised |-> FALSE, clients |-> {}, servers |-> {}]

\* ActionBuilder.__init__
ActionIdle ==
    /\ topic_names_to_builders = {}
    /\ topic_name_suffixes_to_builders = {}
    /\ validated = NotValidated
    /\ action_node_names = NotGathered

\* get_node_pid is not under test on a single process
CandidateIdle == candidate_check = [called |-> FALSE]

FilterClasses == {"Filter", "NodeFilter", "TopicFilter", "ServiceTypeFilter"}

\* INSTANCE = None on Filter; no INSTANCE attribute on a subclass itself
NoInstance == [cls |-> "None"]
UnsetInstance == [cls |-> "unset"]

\* the class attributes as filters.py defines them, nothing called yet
FilterIdle ==
    /\ filter_flags = [FILTER_OUT_DEBUG |-> FALSE, FILTER_OUT_TF |-> FALSE]
    /\ filter_added = {}
    /\ filter_instance = [c \in FilterClasses |-> IF c = "Filter" THEN NoInstance ELSE UnsetInstance]
    /\ filter_log = <<>>

WaitIdle ==
    /\ wait_pc = "idle"
    /\ worker = [state |-> "not started", value |-> "None"]
    /\ result_holder = "None"
    /\ wait_result = [node_name |-> "None"]

MainIdle ==
    /\ options = {}
    /\ main_pc = "idle"
    /\ snapshot_result = "not called"
    /\ specification_update = FALSE
    /\ persisted = {}

MoreIdle ==
    /\ CandidateIdle
    /\ FilterIdle
    /\ WaitIdle
    /\ MainIdle

\* nothing outside the reconciler, the token matcher and the node builders is
\* under way
LaterIdle ==
    /\ EntityIdle
    /\ BankIdle
    /\ RunIdle
    /\ ActionIdle
    /\ MoreIdle

\* _process_dict of a builder: None, {} or the snapshot entry of a pid
NoDict == [k |-> "None", pid |-> 0]
EmptyDict == [k |-> "empty", pid |-> 0]
ProcDict(pid) == [k |-> "proc", pid |-> pid]

NoCall ==
    [n |-> 0, b |-> 0, guess |-> FALSE, candidates |-> {}, remaining |-> <<>>,
     pid |-> 0, before |-> <<>>, dict_before |-> NoDict, dict_after |-> NoDict]

\* no node builder exists
PidIdle ==
    /\ processes = <<>>
    /\ builders = <<>>
    /\ last_call = NoCall
    /\ telemetry = <<>>

MatchNotCalled == [ret |-> "not called", io_names |-> <<>>, unmatched |-> {}]
\* no separate call of _match_token_types is under way
MatchIdle ==
    /\ match_in = [io_names |-> <<>>, io_builders |-> <<>>, spec_types |-> NoneCat]
    /\ match_out = MatchNotCalled

InitRec ==
    /\ node_specs \in [{SpecName} -> StoredSpecs]
    /\ node_bank \in {nb \in [Nodes -> FirstNodeBuilders \cup LaterNodeBuilders] :
                        /\ nb[1] \in FirstNodeBuilders
                        /\ \A i \in Nodes \ {1} : nb[i] \in LaterNodeBuilders}
    /\ bank_builders = CollectedBanks
    /\ node_idx = 1
    /\ is_valid = [n \in Nodes |-> "not called"]
    /\ matched_calls = [n \in Nodes |-> <<>>]
    /\ unmatched_log = [n \in Nodes |-> {}]
    /\ unmatched_nodes = <<>>
    /\ learned = [s \in {SpecName} |-> <<>>]
    /\ exited = FALSE
    /\ MatchIdle
    /\ PidIdle
    /\ LaterIdle

(***************************************************************************)
(* _validate_and_update_models: one action per outcome of a loop iteration *)
(***************************************************************************)
Looping == ~exited /\ node_idx \in Nodes

\* the reconciler touches nothing outside its own state
OutsideReconciler == UNCHANGED <<matchVars, pidVars, laterVars>>

\* node_spec_remap is None: the node is recorded as unmatched and skipped
SkipUnmatchedNode ==
    /\ Looping
    /\ node_bank[node_idx].spec = NoSpec
    /\ unmatched_nodes' = Append(unmatched_nodes, node_idx)
    /\ node_idx' = node_idx + 1
    /\ UNCHANGED <<node_specs, node_bank, bank_builders, is_valid, matched_calls,
                   unmatched_log, learned, exited>>
    /\ OutsideReconciler

\* what a call of _validate_node_builder leaves behind
ValidateOutcome(r) ==
    /\ is_valid' = [is_valid EXCEPT ![node_idx] = r.ret]
    /\ matched_calls' = [matched_calls EXCEPT ![node_idx] = r.calls]
    /\ unmatched_log' = [unmatched_log EXCEPT ![node_idx] = r.unmatched]

\* node_spec.validated: _validate_node_builder; a False or None result is only logged
ValidateNode ==
    /\ Looping
    /\ node_bank[node_idx].spec # NoSpec
    /\ node_specs[node_bank[node_idx].spec].validated
    /\ node_specs[node_bank[node_idx].spec].parameters.set
    /\ ValidateOutcome(ValidateNodeBuilder(node_bank[node_idx],
                                           node_specs[node_bank[node_idx].spec],
                                           bank_builders))
    /\ node_bank' = [node_bank EXCEPT ![node_idx].node = node_bank[node_idx].spec]
    /\ node_idx' = node_idx + 1
    /\ UNCHANGED <<node_specs, bank_builders, unmatched_nodes, learned, exited>>
    /\ OutsideReconciler

\* node_spec.validated and node_spec.parameters is None: len(None) raises
\* TypeError in _validate_node_builder and the handler calls sys.exit(-1)
ValidateNodeRaises ==
    /\ Looping
    /\ node_bank[node_idx].spec # NoSpec
    /\ LET node_spec == node_specs[node_bank[node_idx].spec]
       IN  node_spec.validated /\ ~node_spec.parameters.set
    /\ node_bank' = [node_bank EXCEPT ![node_idx].node = node_bank[node_idx].spec]
    /\ exited' = TRUE
    /\ UNCHANGED <<node_specs, bank_builders, node_idx, is_valid, matched_calls,
                   unmatched_log, unmatched_nodes, learned>>
    /\ OutsideReconciler

\* what a call of _update_node_specification leaves behind
LearnOutcome(name, r, raised) ==
    /\ r.raised = raised
    /\ node_specs' = [node_specs EXCEPT ![name] = r.node_spec]
    /\ learned' = [learned EXCEPT ![name] = Append(@, node_idx)]

\* not node_spec.validated: _update_node_specification learns from this node
LearnNode ==
    /\ Looping
    /\ node_bank[node_idx].spec # NoSpec
    /\ ~node_specs[node_bank[node_idx].spec].validated
    /\ LearnOutcome(node_bank[node_idx].spec,
                    UpdateNodeSpecification(node_specs[node_bank[node_idx].spec],
                                            node_bank[node_idx], bank_builders),
                    FALSE)
    /\ node_bank' = [node_bank EXCEPT ![node_idx].node = node_bank[node_idx].spec]
    /\ node_idx' = node_idx + 1
    /\ UNCHANGED <<bank_builders, is_valid, matched_calls, unmatched_log,
                   unmatched_nodes, exited>>
    /\ OutsideReconciler

\* not node_spec.validated and KeyError escapes the learn pass: it is re-raised
\* and the outer handler calls sys.exit(-1); in-place updates made so far stay
LearnNodeRaises ==
    /\ Looping
    /\ node_bank[node_idx].spec # NoSpec
    /\ ~node_specs[node_bank[node_idx].spec].validated
    /\ LearnOutcome(node_bank[node_idx].spec,
                    UpdateNodeSpecification(node_specs[node_bank[node_idx].spec],
                                            node_bank[node_idx], bank_builders),
                    TRUE)
    /\ node_bank' = [node_bank EXCEPT ![node_idx].node = node_bank[node_idx].spec]
    /\ exited' = TRUE
    /\ UNCHANGED <<bank_builders, node_idx, is_valid, matched_calls, unmatched_log,
                   unmatched_nodes>>
    /\ OutsideReconciler

NextRec ==
    \/ SkipUnmatchedNode
    \/ ValidateNode
    \/ ValidateNodeRaises
    \/ LearnNode
    \/ LearnNodeRaises

Spec == InitRec /\ [][NextRec]_vars

(***************************************************************************)
(* _match_token_types as a pure function: every insertion order of the     *)
(* observed names and of the specification entries, within the bounds      *)
(***************************************************************************)
MaxObserved == 2        \* observed names of one category
MaxSpecEntries == 2     \* entries of one specification category

m_a_x == <<"/", "a", "/", "x">>
m_b_xy == <<"/", "b", "/", "x", "y">>
m_y == <<"/", "y">>
k_xy == <<"x", "y">>
k_y == <<"y">>
MatchNames == {m_a_x, m_b_xy, m_y}
MatchTokens == {k_x, k_xy, k_y}
MatchTypes == {"T", "U"}

\* the sequences of at most n elements of S
RECURSIVE SeqsNoRep(_, _)
SeqsNoRep(S, n) ==
    IF n = 0 THEN {<<>>}
    ELSE LET shorter == SeqsNoRep(S, n - 1)
         IN  shorter \cup {Append(q, x) : q \in {r \in shorter : Len(r) = n - 1},
                                          x \in S}
\* SeqsNoRep lets repetitions in; NoRep filters them out
NoRep(q) == \A i, j \in DOMAIN q : i # j => q[i] # q[j]

\* the dicts token -> type of at most n entries, in every insertion order
DictsOver(keys, n) ==
    UNION {{[i \in DOMAIN q |-> <<q[i], ty[i]>>] : ty \in [DOMAIN q -> MatchTypes]} :
              q \in {r \in SeqsNoRep(keys, n) : NoRep(r)}}

\* the reconciler has no node to look at
RecIdle ==
    /\ node_specs = [s \in {SpecName} |-> CHOOSE x \in StoredSpecs : TRUE]
    /\ node_bank = <<>>
    /\ bank_builders = CollectedBanks
    /\ node_idx = 1
    /\ is_valid = <<>>
    /\ matched_calls = <<>>
    /\ unmatched_log = <<>>
    /\ unmatched_nodes = <<>>
    /\ learned = [s \in {SpecName} |-> <<>>]
    /\ exited = FALSE

InitMatch ==
    /\ match_in \in
         [io_names : {q \in SeqsNoRep(MatchNames, MaxObserved) : NoRep(q)},
          io_builders : [MatchNames -> MatchTypes],
          spec_types : {NoneCat} \cup {DictCat(d) : d \in DictsOver(MatchTokens, MaxSpecEntries)}]
    /\ match_out = MatchNotCalled
    /\ RecIdle
    /\ PidIdle
    /\ LaterIdle

\* the call _match_token_types(node_name, io_names, io_builders, spec_types)
CallMatchTokenTypes ==
    /\ match_out = MatchNotCalled
    /\ match_out' = MatchTokenTypes(match_in.io_names, match_in.io_builders,
                                    match_in.spec_types)
    /\ UNCHANGED <<match_in, recVars, pidVars, laterVars>>

NextMatch == CallMatchTokenTypes

SpecMatch == InitMatch /\ [][NextMatch]_vars

(***************************************************************************)
(* Process matching: NodeBuilder.get_node_pid and the executable accessors *)
(***************************************************************************)
MaxProcs == 3         \* processes in the snapshot
NumBuilders == 3      \* node builders of the run

s_root == <<"/">>
s_ns1 == <<"/", "n", "s", "1">>
s_ns_arg == <<"_", "_", "n", "s", ":", "=">>
s_python3 == <<"p", "y", "t", "h", "o", "n", "3">>
s_ros2 == <<"r", "o", "s", "2">>
s_launch == <<"l", "a", "u", "n", "c", "h">>
s_run == <<"r", "u", "n">>
s_pkg == <<"p", "k", "g">>
s_talker == <<"t", "a", "l", "k", "e", "r">>
s_talker_2 == s_talker \o <<"_", "2">>
s_listener == <<"l", "i", "s", "t", "e", "n", "e", "r">>
s_launch_py == s_talker \o <<".">> \o s_launch \o <<".", "p", "y">>
s_ros_args == <<"-", "-", "r", "o", "s", "-", "a", "r", "g", "s">>
s_r == <<"-", "r">>
s_lib == <<"/", "w", "s", "/", "i", "n", "s", "t", "a", "l", "l", "/">> \o s_pkg
             \o <<"/", "l", "i", "b", "/">> \o s_pkg \o <<"/">>
s_bin == <<"/", "u", "s", "r", "/", "b", "i", "n", "/">>

\* the keys of a process record that the accessors read
key_exe == <<"e", "x", "e">>
key_name == <<"n", "a", "m", "e">>
key_cmdline == <<"c", "m", "d", "l", "i", "n", "e">>
key_num_threads == <<"n", "u", "m", "_", "t", "h", "r", "e", "a", "d", "s">>
key_cpu_percent == <<"c", "p", "u", "_", "p", "e", "r", "c", "e", "n", "t">>
key_memory_percent == <<"m", "e", "m", "o", "r", "y", "_", "p", "e", "r", "c", "e", "n", "t">>
key_memory_info == <<"m", "e", "m", "o", "r", "y", "_", "i", "n", "f", "o">>

\* what psutil reports for a process, as text
v_num_threads == <<"4">>
v_memory_percent == <<"1", ".", "5">>
v_memory_info == <<"p", "m", "e", "m">>
v_cpu_percent == <<"0", ".", "0">>

\* the ROS-like processes that may be running: name, exe and cmdline of each
Templates ==
    << [name |-> s_python3, exe |-> s_bin \o s_python3,
        cmdline |-> <<s_python3, s_lib \o s_talker>>],
       [name |-> s_python3, exe |-> s_bin \o s_python3,
        cmdline |-> <<s_python3, s_lib \o s_talker_2>>],
       [name |-> s_talker, exe |-> s_lib \o s_talker,
        cmdline |-> <<s_lib \o s_talker, s_ros_args, s_r, s_ns_arg \o s_ns1>>],
       [name |-> s_ros2, exe |-> s_bin \o s_python3,
        cmdline |-> <<s_ros2, s_launch, s_pkg, s_launch_py>>],
       [name |-> s_listener, exe |-> s_lib \o s_listener,
        cmdline |-> <<s_lib \o s_listener>>] >>

\* the nodes the ROS graph reports: builder name, namespace and node name
NodeCatalog ==
    << [name |-> s_root \o s_talker, namespace |-> s_root, node |-> s_talker],
       [name |-> s_root \o s_talker_2, namespace |-> s_root, node |-> s_talker_2],
       [name |-> s_ns1 \o s_root \o s_talker, namespace |-> s_ns1, node |-> s_talker],
       [name |-> s_root \o s_listener, namespace |-> s_root, node |-> s_listener] >>

Builders == 1..NumBuilders

\* the first element of the sort key of list_ros_like_processes
LaunchClass(cmdline) ==
    IF Contains(s_ros2 \o <<" ">> \o s_launch, JoinStr(<<" ">>, cmdline))
       \/ Contains(<<"r", "o", "s">> \o s_launch, JoinStr(<<" ">>, cmdline))
    THEN 0
    ELSE IF Contains(s_ros2 \o <<" ">> \o s_run, JoinStr(<<" ">>, cmdline))
            \/ Contains(<<"r", "o", "s">> \o s_run, JoinStr(<<" ">>, cmdline))
    THEN 1 ELSE 2

\* key(p) < key(q) for the sort key (launch class, name.lower(), pid)
ProcLess(p, q) ==
    \/ LaunchClass(p.cmdline) < LaunchClass(q.cmdline)
    \/ /\ LaunchClass(p.cmdline) = LaunchClass(q.cmdline)
       /\ \/ StrLess(p.name, q.name)
          \/ p.name = q.name /\ p.pid < q.pid

\* sorted(results, key=key)
RECURSIVE SortProcs(_)
SortProcs(S) ==
    IF S = {} THEN <<>>
    ELSE LET m == CHOOSE x \in S : \A y \in S \ {x} : ProcLess(x, y)
         IN  <<m>> \o SortProcs(S \ {m})

\* the record classify_process builds for a process
ClassifyProcess(pid, ppid, t) ==
    [pid |-> pid, ppid |-> ppid, name |-> t.name, exe |-> t.exe, cmdline |-> t.cmdline,
     assigned |-> NoneStr, cpu_percent |-> NoneStr]

\* list_ros_like_processes() for n processes: process pid runs template tm[pid]
\* and has parent pp[pid] (0: a parent that is not ROS-like)
ListRosLikeProcesses(n, tm, pp) ==
    SortProcs({ClassifyProcess(i, pp[i], Templates[tm[i]]) : i \in 1..n})

\* NodeBuilder.__init__ on the first builder: a process with a child in the
\* snapshot is marked assigned to (the last of) its children
MarkParents(procs) ==
    [i \in DOMAIN procs |->
        IF \E j \in DOMAIN procs : procs[j].ppid = procs[i].pid
        THEN [procs[i] EXCEPT !.assigned =
                 IntStr(procs[MaxOf({j \in DOMAIN procs : procs[j].ppid = procs[i].pid})].pid)]
        ELSE procs[i]]

\* (mutation) only the containment test, no token overlap
NameMatchesContained(last_cmd, node_name) == Contains(node_name, last_cmd)

\* the name test of get_node_pid for one command-line word
NameMatches(last_cmd, node_name) ==
    \/ Contains(node_name, last_cmd)
    \/ /\ 2 * Cardinality({i \in DOMAIN Split(node_name, "_") :
                              Contains(Split(node_name, "_")[i], last_cmd)})
             >= Len(Split(node_name, "_"))
       /\ 2 * Cardinality({i \in DOMAIN Split(last_cmd, "_") :
                              Contains(Split(last_cmd, "_")[i], node_name)})
             >= Len(Split(last_cmd, "_"))

\* found_ns and found_name at the end of the loop body of get_node_pid
IsCandidate(proc, namespace, node_name) ==
    /\ Len(proc.cmdline) > 0
    /\ \/ namespace = s_root
       \/ \E i \in DOMAIN proc.cmdline : Contains(s_ns_arg \o namespace, proc.cmdline[i])
    /\ \/ proc.name = node_name
       \/ \E i \in DOMAIN proc.cmdline :
             NameMatches(LastSeg(proc.cmdline[i], "/"), node_name)

\* possible_procs after the first loop, in snapshot order
PossibleProcs(procs, namespace, node_name) ==
    SelectSeq(procs, LAMBDA p : IsCandidate(p, namespace, node_name))

\* parents_to_remove are popped
WithoutParents(possible) ==
    SelectSeq(possible,
              LAMBDA p : ~\E i \in DOMAIN possible : possible[i].ppid = p.pid)

\* (mutation) previously assigned processes are not removed
WithoutAssignedKeepAll(possible) == possible

\* previously_assigned are popped
WithoutAssigned(possible) ==
    SelectSeq(possible, LAMBDA p : p.assigned = NoneStr)

\* (mutation) no candidate is removed
RemainingProcsUnpruned(possible) == possible

\* possible_procs when the pid is picked: a sole candidate is not pruned
RemainingProcs(possible) ==
    IF Len(possible) = 1 THEN possible
    ELSE WithoutAssigned(WithoutParents(possible))

\* (mutation) a choice is made among several even when no guess is allowed
DoNotChooseNever(remaining, guess) == FALSE

\* "Do not choose for now": several remain and no guess is allowed
DoNotChoose(remaining, guess) == Len(remaining) # 1 /\ ~guess

\* the pid get_node_pid returns (0 for None)
ChoosePid(remaining, guess) ==
    IF Len(remaining) = 0 THEN 0
    ELSE IF DoNotChoose(remaining, guess) THEN 0
    ELSE remaining[1].pid

QualifiedName(namespace, node_name) ==
    IF namespace # s_root THEN namespace \o <<"/">> \o node_name ELSE node_name

\* (mutation) proc["assigned"] is overwritten
MarkAssignedOverwrite(proc, namespace, node_name) ==
    [proc EXCEPT !.assigned = QualifiedName(namespace, node_name)]

\* proc["assigned"] is set, or extended after a comma
MarkAssigned(proc, namespace, node_name) ==
    [proc EXCEPT !.assigned =
        IF @ = NoneStr THEN QualifiedName(namespace, node_name)
        ELSE @ \o <<",">> \o QualifiedName(namespace, node_name)]

PidsOf(procs) == [i \in DOMAIN procs |-> procs[i].pid]

\* what get_node_pid returns and leaves behind once the pid is picked
Returned(procs, process_dict, namespace, node_name, possible, remaining, pid) ==
    [pid |-> pid,
     candidates |-> Range(PidsOf(possible)),
     remaining |-> IF Len(possible) = 0 THEN <<>> ELSE PidsOf(remaining),
     processes |-> IF pid = 0 THEN procs
                   ELSE [i \in DOMAIN procs |->
                            IF procs[i].pid = pid
                            THEN MarkAssigned(procs[i], namespace, node_name)
                            ELSE procs[i]],
     process_dict |-> IF pid = 0 THEN process_dict ELSE ProcDict(pid)]

Pruned(procs, process_dict, namespace, node_name, possible, guess) ==
    Returned(procs, process_dict, namespace, node_name, possible,
             RemainingProcs(possible),
             IF Len(possible) = 0 THEN 0 ELSE ChoosePid(RemainingProcs(possible), guess))

\* self.get_node_pid(namespace, node_name, guess) on a builder whose
\* _process_dict is process_dict
GetNodePid(procs, process_dict, namespace, node_name, guess) ==
    Pruned(procs, process_dict, namespace, node_name,
           PossibleProcs(procs, namespace, node_name), guess)

\* the record kept of a call of get_node_pid by builder b
CallRecord(b, guess, r) ==
    [n |-> last_call.n + 1, b |-> b, guess |-> guess, candidates |-> r.candidates,
     remaining |-> r.remaining, pid |-> r.pid, before |-> processes,
     dict_before |-> builders[b].process_dict, dict_after |-> r.process_dict]

\* f"Unknown '{key}' for '{self.name}'"
Sentinel(key, name) ==
    <<"U", "n", "k", "n", "o", "w", "n", " ", "'">> \o key
        \o <<"'", " ", "f", "o", "r", " ", "'">> \o name \o <<"'">>

ProcOf(procs, pid) == procs[CHOOSE i \in DOMAIN procs : procs[i].pid = pid]

\* self._gather_process_info(key) once _process_dict is a dict: the entry of the
\* process, or the sentinel after the KeyError on {}
GatherProcessInfo(process_dict, procs, key, name) ==
    IF process_dict.k # "proc" THEN Sentinel(key, name)
    ELSE IF key = key_exe THEN ProcOf(procs, process_dict.pid).exe
    ELSE IF key = key_name THEN ProcOf(procs, process_dict.pid).name
    ELSE IF key = key_num_threads THEN v_num_threads
    ELSE IF key = key_cpu_percent
    THEN (IF ProcOf(procs, process_dict.pid).cpu_percent = NoneStr THEN v_cpu_percent
          ELSE ProcOf(procs, process_dict.pid).cpu_percent)
    ELSE IF key = key_memory_percent THEN v_memory_percent
    ELSE v_memory_info

\* what " ".join iterates over: the cmdline list, or the characters of the
\* sentinel str
GatherCmdline(process_dict, procs, name) ==
    IF process_dict.k = "proc" THEN ProcOf(procs, process_dict.pid).cmdline
    ELSE CharsOf(Sentinel(key_cmdline, name))

\* the executable_* properties
ExecutableCmdline(process_dict, procs, name) ==
    JoinStr(<<" ">>, GatherCmdline(process_dict, procs, name))

AccessorKey ==
    [executable_file |-> key_exe, executable_name |-> key_name,
     executable_cmdline |-> key_cmdline, executable_num_threads |-> key_num_threads,
     executable_cpu_percent |-> key_cpu_percent,
     executable_memory_percent |-> key_memory_percent,
     executable_memory_info |-> key_memory_info]

Accessors == DOMAIN AccessorKey

Accessor(a, process_dict, procs, name) ==
    IF a = "executable_cmdline" THEN ExecutableCmdline(process_dict, procs, name)
    ELSE GatherProcessInfo(process_dict, procs, AccessorKey[a], name)

NotRead == [a \in Accessors |-> NoneStr]

NewBuilder(b) ==
    [name |-> NodeCatalog[b].name, namespace |-> NoneStr, node |-> NoneStr,
     process_dict |-> NoDict, phase |-> "new"]

InitPid ==
    /\ \E n \in 1..MaxProcs :
         \E tm \in [1..n -> DOMAIN Templates], pp \in [1..n -> 0..(n - 1)] :
            /\ \A i \in 1..n : pp[i] < i
            /\ processes = MarkParents(ListRosLikeProcesses(n, tm, pp))
    /\ builders = [b \in Builders |-> NewBuilder(b)]
    /\ last_call = NoCall
    /\ telemetry = [b \in Builders |-> NotRead]
    /\ RecIdle
    /\ MatchIdle
    /\ LaterIdle

OutsideBuilders == UNCHANGED <<recVars, matchVars, laterVars>>

\* what add_info leaves behind, r being what its get_node_pid call did
AddInfoOutcome(b, r) ==
    /\ processes' = r.processes
    /\ builders' = [builders EXCEPT ![b] =
                       [@ EXCEPT !.namespace = NodeCatalog[b].namespace,
                                 !.node = NodeCatalog[b].node,
                                 !.process_dict = r.process_dict,
                                 !.phase = "info"]]
    /\ last_call' = CallRecord(b, FALSE, r)

\* add_info(node): the first pass, guess=False
AddInfo(b) ==
    /\ builders[b].phase = "new"
    /\ AddInfoOutcome(b, GetNodePid(processes, builders[b].process_dict,
                                    NodeCatalog[b].namespace, NodeCatalog[b].node, FALSE))
    /\ UNCHANGED telemetry
    /\ OutsideBuilders

\* the first branch of _gather_process_info, r being what get_node_pid did: the
\* assert holds when the builder's record is the entry of the pid returned;
\* otherwise, and when no pid is returned, _process_dict becomes {}
ResolveOutcome(b, r) ==
    /\ processes' = r.processes
    /\ builders' = [builders EXCEPT ![b] =
                       [@ EXCEPT !.process_dict =
                                    IF r.pid > 0 /\ r.process_dict = ProcDict(r.pid)
                                    THEN r.process_dict ELSE EmptyDict,
                                 !.phase = "prepared"]]
    /\ last_call' = CallRecord(b, TRUE, r)

\* prepare(): self._gather_process_info("exe"); the second pass, guess=True,
\* runs only if the first pass left _process_dict at None; the bank prepares
\* its builders one after the other, in bank order, once collection is over
Prepare(b) ==
    /\ \A c \in Builders : builders[c].phase # "new"
    /\ \A c \in 1..(b - 1) : builders[c].phase # "info"
    /\ builders[b].phase = "info"
    /\ IF builders[b].process_dict = NoDict
       THEN ResolveOutcome(b, GetNodePid(processes, builders[b].process_dict,
                                         builders[b].namespace, builders[b].node, TRUE))
       ELSE /\ builders' = [builders EXCEPT ![b] = [@ EXCEPT !.phase = "prepared"]]
            /\ UNCHANGED <<processes, last_call>>
    /\ UNCHANGED telemetry
    /\ OutsideBuilders

\* extract_metamodel(): _populate_metamodel_with_common_info reads every
\* executable_* property; prepare() has run, so _process_dict is a dict;
\* reading cpu_percent stores the measurement in the process record; the bank
\* extracts its builders in bank order, once all are prepared
Extract(b) ==
    /\ \A c \in Builders : builders[c].phase \notin {"new", "info"}
    /\ \A c \in 1..(b - 1) : builders[c].phase = "extracted"
    /\ builders[b].phase = "prepared"
    /\ telemetry' = [telemetry EXCEPT ![b] =
                        [a \in Accessors |->
                            Accessor(a, builders[b].process_dict, processes,
                                     builders[b].name)]]
    /\ processes' = [i \in DOMAIN processes |->
                        IF builders[b].process_dict = ProcDict(processes[i].pid)
                           /\ processes[i].cpu_percent = NoneStr
                        THEN [processes[i] EXCEPT !.cpu_percent = v_cpu_percent]
                        ELSE processes[i]]
    /\ builders' = [builders EXCEPT ![b] = [@ EXCEPT !.phase = "extracted"]]
    /\ UNCHANGED last_call
    /\ OutsideBuilders

NextPid ==
    \/ \E b \in Builders : AddInfo(b)
    \/ \E b \in Builders : Prepare(b)
    \/ \E b \in Builders : Extract(b)

SpecPid == InitPid /\ [][NextPid]_vars

(***************************************************************************)
(* Calls of update_attributes on one entity.                                *)
(***************************************************************************)
InitEntity ==
    /\ \E name \in {NoneVal, StrVal("a")}, data \in DataValues, version \in {0, 2} :
           entity = NewEntity(name, data, version)
    /\ entity_before = entity
    /\ kwargs = <<>>
    /\ update_calls = 0
    /\ RecIdle
    /\ MatchIdle
    /\ PidIdle
    /\ BankIdle
    /\ RunIdle
    /\ ActionIdle
    /\ MoreIdle

OutsideEntity == UNCHANGED <<recVars, matchVars, pidVars, bankVars, runVars, actVars, moreVars>>

\* the entity as a call finds it: no exception pending
Entered(e) == [e EXCEPT !.raised = FALSE]

UpdateOutcome(after, kw) ==
    /\ entity' = after
    /\ entity_before' = Entered(entity)
    /\ kwargs' = kw
    /\ update_calls' = update_calls + 1

\* entity.update_attributes(**kw) returns
CallUpdateAttributes ==
    /\ update_calls < MaxCalls
    /\ \E kw \in KwargsChoices :
           /\ ~UpdateAttributes(Entered(entity), kw).raised
           /\ UpdateOutcome(UpdateAttributes(Entered(entity), kw), kw)
    /\ OutsideEntity

\* entity.update_attributes(**kw) raises from dict.update or set.update; the
\* keys before the failing one have been applied
CallUpdateAttributesRaises ==
    /\ update_calls < MaxCalls
    /\ \E kw \in KwargsChoices :
           /\ UpdateAttributes(Entered(entity), kw).raised
           /\ UpdateOutcome(UpdateAttributes(Entered(entity), kw), kw)
    /\ OutsideEntity

NextEntity == CallUpdateAttributes \/ CallUpdateAttributesRaises

SpecEntity == InitEntity /\ [][NextEntity]_vars

(***************************************************************************)
(* Lookups in one Bank.                                                    *)
(***************************************************************************)
MaxLookups == 3

LookupNames == {"a", "b", "c"}

\* A Bank as its constructor leaves it: empty, or holding the entities it was
\* given (extract_metamodel, YAML load), each of the Bank's entity class.
InitBank ==
    /\ bank_kind \in BankKinds
    /\ names_to_metamodels \in
           {<<>>, <<[key |-> "a",
                     entity |-> [kind |-> EntityKinds[bank_kind], name |-> "a", id |-> 1]]>>}
    /\ lookups = <<>>
    /\ RecIdle
    /\ MatchIdle
    /\ PidIdle
    /\ EntityIdle
    /\ RunIdle
    /\ ActionIdle
    /\ MoreIdle

OutsideBank == UNCHANGED <<recVars, matchVars, pidVars, entVars, runVars, actVars, moreVars>>

\* bank[name]
Lookup ==
    /\ Len(lookups) < MaxLookups
    /\ \E name \in LookupNames :
           /\ names_to_metamodels' = GetItemBank(bank_kind, names_to_metamodels, name)
           /\ lookups' = Append(lookups,
                  [key |-> name,
                   present |-> name \in BankKeys(names_to_metamodels),
                   returned |-> GetItem(bank_kind, names_to_metamodels, name)])
    /\ UNCHANGED bank_kind
    /\ OutsideBank

NextBank == Lookup

SpecBank == InitBank /\ [][NextBank]_vars

(***************************************************************************)
(* One snapshot run: collect_system_info, _collect_rosgraph_info, the      *)
(* prepare of each bank builder, _validate_and_update_models, the          *)
(* extraction of each bank.  A builder is [kind, name, prepares, extracts, *)
(* refs]: prepares and extracts count the calls of its prepare() and       *)
(* extract_metamodel(); refs are the names a node builder holds.           *)
(***************************************************************************)
n_server == <<"/", "s", "e", "r", "v", "e", "r">>
n_client == <<"/", "c", "l", "i", "e", "n", "t">>
n_monitor == <<"/", "m", "o", "n", "i", "t", "o", "r">>
n_talker == <<"/", "t", "a", "l", "k", "e", "r">>
n_roslaunch == <<"/", "r", "o", "s", "l", "a", "u", "n", "c", "h">>
n_rosout == <<"/", "r", "o", "s", "o", "u", "t">>
n_rosout_agg == <<"/", "r", "o", "s", "o", "u", "t", "_", "a", "g", "g">>
n_statistics == <<"/", "s", "t", "a", "t", "i", "s", "t", "i", "c", "s">>
n_chatter == <<"/", "c", "h", "a", "t", "t", "e", "r">>
n_fib == <<"/", "f", "i", "b">>
n_fib_feedback == <<"/", "f", "i", "b", "/", "_", "a", "c", "t", "i", "o", "n", "/", "f", "e", "e", "d", "b", "a", "c", "k">>
n_fib_status == <<"/", "f", "i", "b", "/", "_", "a", "c", "t", "i", "o", "n", "/", "s", "t", "a", "t", "u", "s">>
n_action_sep == <<"/", "_", "a", "c", "t", "i", "o", "n">>
n_add == <<"/", "a", "d", "d">>
n_use_sim_time == <<"u", "s", "e", "_", "s", "i", "m", "_", "t", "i", "m", "e">>

\* NodeFilter: BASE_EXCLUSIONS and, with FILTER_OUT_DEBUG, DEBUG_EXCLUSIONS
NodeFilterOut(name) == name \in {n_roslaunch, n_rosout}
\* TopicFilter: DEBUG_EXCLUSIONS (FILTER_OUT_TF is False)
TopicFilterOut(name) == name \in {n_rosout, n_rosout_agg, n_statistics}
\* ServiceTypeFilter: DEBUG_EXCLUSIONS, on the type of the service
ServiceTypeFilterOut(type) == type \in {"roscpp/GetLoggers", "roscpp/SetLoggerLevel"}

\* What the ROS graph API reports of one node: the actions it serves and
\* uses, the topics it publishes and subscribes, its services (name, type),
\* its parameters, whether it is a component container.
FeedNodes ==
    { [name |-> n_server, servers |-> <<n_fib>>, clients |-> <<>>,
       pubs |-> <<n_fib_feedback, n_fib_status, n_rosout>>, subs |-> <<>>,
       services |-> <<[name |-> n_add, type |-> "srv/Add"]>>,
       params |-> <<n_use_sim_time>>, container |-> FALSE],
      [name |-> n_client, servers |-> <<>>, clients |-> <<n_fib>>,
       pubs |-> <<n_rosout, n_chatter>>, subs |-> <<n_fib_feedback, n_fib_status>>,
       services |-> <<>>, params |-> <<>>, container |-> FALSE],
      [name |-> n_monitor, servers |-> <<>>, clients |-> <<>>,
       pubs |-> <<n_rosout>>, subs |-> <<n_fib_status, n_chatter>>,
       services |-> <<[name |-> n_monitor, type |-> "roscpp/GetLoggers"]>>,
       params |-> <<>>, container |-> TRUE],
      [name |-> n_talker, servers |-> <<>>, clients |-> <<>>,
       pubs |-> <<n_chatter, n_rosout>>, subs |-> <<>>,
       services |-> <<>>, params |-> <<n_use_sim_time>>, container |-> FALSE],
      [name |-> n_roslaunch, servers |-> <<>>, clients |-> <<>>,
       pubs |-> <<n_rosout>>, subs |-> <<>>,
       services |-> <<>>, params |-> <<n_use_sim_time>>, container |-> FALSE] }

MaxFeed == 3

\* s.split(sep)[0]
BeforeFirst(s, sep) ==
    LET at == {i \in 0..(Len(s) - Len(sep)) : SubSeq(s, i + 1, i + Len(sep)) = sep}
    IN  IF at = {} THEN s ELSE SubSeq(s, 1, MinOf(at))

\* a dict of collect_system_info: entries [name, a, b] with two sets of node
\* names (servers and clients, or publishers and subscribers)
InfoNames(d) == {d[i].name : i \in DOMAIN d}

InfoAdd(d, name, side, node) ==
    LET e == IF name \in InfoNames(d) THEN d ELSE Append(d, [name |-> name, a |-> {}, b |-> {}])
    IN  [i \in DOMAIN e |->
            IF e[i].name # name THEN e[i]
            ELSE IF side = "a" THEN [e[i] EXCEPT !.a = @ \cup {node}]
            ELSE [e[i] EXCEPT !.b = @ \cup {node}]]

RECURSIVE InfoAddAll(_, _, _, _)
InfoAddAll(d, names, side, node) ==
    IF names = <<>> THEN d
    ELSE InfoAddAll(InfoAdd(d, Head(names), side, node), Tail(names), side, node)

\* the topics of a node that are not topics of an action seen so far
RECURSIVE TopicsAddAll(_, _, _, _, _)
TopicsAddAll(d, actions, names, side, node) ==
    IF names = <<>> THEN d
    ELSE TopicsAddAll(IF BeforeFirst(Head(names), n_action_sep) \in InfoNames(actions) THEN d
                      ELSE InfoAdd(d, Head(names), side, node),
                      actions, Tail(names), side, node)

ServiceNames(services) == [i \in DOMAIN services |-> services[i].name]

CollectedNode(info, each_node, actions, topics, services) ==
    [actions |-> actions, nodes |-> Append(info.nodes, each_node.name),
     services |-> services, topics |-> topics]

\* the publisher and subscriber topics of a node, after its actions
CollectTopics(info, each_node, actions) ==
    CollectedNode(info, each_node, actions,
        TopicsAddAll(TopicsAddAll(info.topics, actions, each_node.pubs, "a", each_node.name),
                     actions, each_node.subs, "b", each_node.name),
        InfoAddAll(InfoAddAll(info.services, ServiceNames(each_node.services), "a", each_node.name),
                   ServiceNames(each_node.services), "b", each_node.name))

\* collect_system_info: the body of the loop for one node
CollectNode(info, each_node) ==
    IF NodeFilterOut(each_node.name) THEN info
    ELSE CollectTopics(info, each_node,
             InfoAddAll(InfoAddAll(info.actions, each_node.servers, "a", each_node.name),
                        each_node.clients, "b", each_node.name))

RECURSIVE CollectSystemInfo(_, _)
CollectSystemInfo(info, nodes) ==
    IF nodes = <<>> THEN info
    ELSE CollectSystemInfo(CollectNode(info, Head(nodes)), Tail(nodes))

\* the keys of names_to_entity_builders
BuilderNames(st, kind) == {st.made[st.bank[kind][i]].key : i \in DOMAIN st.bank[kind]}

\* bank_builder[name]: the builder is created when the name is absent, and
\* add_entity_builder stores it under the name it has then
GetBuilder(st, kind, name) ==
    IF name \in BuilderNames(st, kind) THEN st
    ELSE [made |-> Append(st.made, [kind |-> kind, key |-> name, name |-> name,
                                    prepares |-> 0, extracts |-> 0, refs |-> {}]),
          bank |-> [st.bank EXCEPT ![kind] = Append(@, Len(st.made) + 1)]]

RECURSIVE GetBuilders(_, _, _)
GetBuilders(st, kind, names) ==
    IF names = <<>> THEN st
    ELSE GetBuilders(GetBuilder(st, kind, Head(names)), kind, Tail(names))

AddRefs(got, node_names, ref) ==
    [made |-> [i \in DOMAIN got.made |->
                  IF /\ got.made[i].kind = "NODE"
                     /\ got.made[i].key \in node_names
                     /\ i \in Range(got.bank["NODE"])
                  THEN [got.made[i] EXCEPT !.refs = @ \cup ref]
                  ELSE got.made[i]],
     bank |-> got.bank]

\* node_bank[node_name].add_...(name) for every node_name of a set
AddNames(st, node_names, ref) ==
    AddRefs(GetBuilders(st, "NODE", SortedSeq(node_names)), node_names, ref)

TopicRef(name) == IF TopicFilterOut(name) THEN {} ELSE {<<"TOPIC", name>>}

\* _create_nodes_with_topics: the loop over the topics
RECURSIVE CreateTopics(_, _)
CreateTopics(st, topics) ==
    IF topics = <<>> THEN st
    ELSE CreateTopics(AddNames(AddNames(GetBuilder(st, "TOPIC", Head(topics).name),
                                        Head(topics).a, TopicRef(Head(topics).name)),
                               Head(topics).b, TopicRef(Head(topics).name)),
                      Tail(topics))

\* _collect_actions_info
RECURSIVE CollectActionsInfo(_, _)
CollectActionsInfo(st, actions) ==
    IF actions = <<>> THEN st
    ELSE CollectActionsInfo(AddNames(AddNames(GetBuilder(st, "ACTION", Head(actions).name),
                                              Head(actions).b, {<<"ACTION", Head(actions).name>>}),
                                     Head(actions).a, {<<"ACTION", Head(actions).name>>}),
                            Tail(actions))

ServiceType(fd, name) ==
    LET n == CHOOSE i \in DOMAIN fd : \E j \in DOMAIN fd[i].services : fd[i].services[j].name = name
        s == CHOOSE j \in DOMAIN fd[n].services : fd[n].services[j].name = name
    IN  fd[n].services[s].type

ServiceRef(fd, name) ==
    IF ServiceTypeFilterOut(ServiceType(fd, name)) THEN {} ELSE {<<"SERVICE", name>>}

\* _collect_services_info
RECURSIVE CollectServicesInfo(_, _, _)
CollectServicesInfo(st, services, fd) ==
    IF services = <<>> THEN st
    ELSE CollectServicesInfo(AddNames(GetBuilder(st, "SERVICE", Head(services).name),
                                      Head(services).a, ServiceRef(fd, Head(services).name)),
                             Tail(services), fd)

\* os.path.join(node_name, param_name)
ParamFullName(node_name, param_name) == node_name \o <<"/">> \o param_name

FeedNode(fd, name) == fd[CHOOSE i \in DOMAIN fd : fd[i].name = name]

\* ParameterBuilder.add_info on the builder stored under full_name:
\* self._name, self._param_val, self._node_name = parameter_info
AddParameterInfo(got, full_name, param_name) ==
    [got EXCEPT !.made = [i \in DOMAIN got.made |->
         IF /\ got.made[i].kind = "PARAMETER"
            /\ got.made[i].key = full_name
            /\ i \in Range(got.bank["PARAMETER"])
         THEN [got.made[i] EXCEPT !.name = param_name] ELSE got.made[i]]]

\* the parameters of one node: add_parameter_name(param_full_name), then
\* parameter_bank[param_full_name].add_info((param_name, pval, node_name))
RECURSIVE CollectParameters(_, _, _)
CollectParameters(st, node_name, params) ==
    IF params = <<>> THEN st
    ELSE CollectParameters(
             AddParameterInfo(GetBuilder(AddNames(st, {node_name},
                                    {<<"PARAMETER", ParamFullName(node_name, Head(params))>>}),
                                "PARAMETER", ParamFullName(node_name, Head(params))),
                     ParamFullName(node_name, Head(params)), Head(params)),
             node_name, Tail(params))

\* _collect_parameters_info: the nodes in sorted order, filtered ones included
RECURSIVE CollectParametersInfo(_, _, _)
CollectParametersInfo(st, node_names, fd) ==
    IF node_names = <<>> THEN st
    ELSE CollectParametersInfo(
             CollectParameters(st, Head(node_names), FeedNode(fd, Head(node_names)).params),
             Tail(node_names), fd)

\* _collect_component_info: node_bank[manager_name] of each container
Containers(fd) == {fd[i].name : i \in {j \in DOMAIN fd : fd[j].container}}

\* _create_nodes_with_topics: a builder per node, then the loop over topics
CreateNodesWithTopics(info) ==
    CreateTopics(GetBuilders(NoBanks, "NODE", info.nodes), info.topics)

\* _collect_component_info
CollectComponentInfo(st, fd) == GetBuilders(st, "NODE", SortedSeq(Containers(fd)))

\* the helpers of _collect_rosgraph_info, in the order they are called
RosgraphOrder == <<"create_nodes_with_topics", "collect_component_info",
                   "collect_actions_info", "collect_services_info",
                   "collect_parameters_info">>

\* _should_filter_out of each bank builder
ShouldFilterOut(kind, name, fd) ==
    CASE kind = "NODE"    -> NodeFilterOut(name)
      [] kind = "TOPIC"   -> TopicFilterOut(name)
      [] kind = "SERVICE" -> ServiceTypeFilterOut(ServiceType(fd, name))
      [] OTHER            -> FALSE

\* (mutation) prepare keeps every builder
GatherUnfiltered(st, kind, fd) == st.bank[kind]

\* _gather_filtered_names_to_entity_builders
GatherFiltered(st, kind, fd) ==
    LET q == st.bank[kind]
        F[k \in 0..Len(q)] ==
            IF k = 0 THEN <<>>
            ELSE IF ShouldFilterOut(kind, st.made[q[k]].key, fd) THEN F[k - 1]
            ELSE Append(F[k - 1], q[k])
    IN  F[Len(q)]

\* (mutation) prepare() is called twice on every builder kept
PreparedTwice(st, kind, kept) ==
    [made |-> [i \in DOMAIN st.made |->
                  IF i \in Range(kept) THEN [st.made[i] EXCEPT !.prepares = @ + 2]
                  ELSE st.made[i]],
     bank |-> [st.bank EXCEPT ![kind] = kept]]

Prepared(st, kind, kept) ==
    [made |-> [i \in DOMAIN st.made |->
                  IF i \in Range(kept) THEN [st.made[i] EXCEPT !.prepares = @ + 1]
                  ELSE st.made[i]],
     bank |-> [st.bank EXCEPT ![kind] = kept]]

\* _BankBuilder.prepare: filter, then prepare() on every builder kept
PrepareBankBuilder(st, kind, fd) == Prepared(st, kind, GatherFiltered(st, kind, fd))

n_host == <<"h", "o", "s", "t">>

\* machine_builder.prepare(node_name=node_builder.name)
PrepareMachine(got, name) ==
    [got EXCEPT !.made = [i \in DOMAIN got.made |->
         IF got.made[i].kind = "MACHINE" /\ got.made[i].key = name
         THEN [got.made[i] EXCEPT !.prepares = @ + 1] ELSE got.made[i]]]

\* MachineBankBuilder.prepare: for every node builder, prepare() on the
\* builder of its machine (socket.gethostname() for every node)
RECURSIVE PrepareMachines(_, _)
PrepareMachines(st, node_builders) ==
    IF node_builders = <<>> THEN st
    ELSE PrepareMachines(PrepareMachine(GetBuilder(st, "MACHINE", n_host), n_host),
                         Tail(node_builders))

\* ROSModelBuilder.prepare: the banks in the order they are prepared
PrepareOrder == <<"TOPIC", "ACTION", "SERVICE", "PARAMETER", "NODE", "MACHINE">>
\* ROSModelBuilder._extract_metamodels: self._bank_builders in dict order
ExtractOrder == <<"NODE", "TOPIC", "ACTION", "SERVICE", "PARAMETER", "MACHINE">>

\* _match_token_types, _update_node_specification_data: io_builders[io_name]
\* for every name a node builder holds
RECURSIVE LookUpRefs(_, _)
LookUpRef(st, refs, r) == LookUpRefs(GetBuilder(st, r[1], r[2]), refs \ {r})

LookUpRefs(st, refs) ==
    IF refs = {} THEN st ELSE LookUpRef(st, refs, CHOOSE x \in refs : TRUE)

\* _validate_and_update_models: the node builders in with_spec have a
\* specification to be matched against or learned from
ValidateAndUpdateModels(st, with_spec) ==
    LookUpRefs(st, UNION {st.made[i].refs : i \in Range(st.bank["NODE"]) \cap with_spec})

\* _BankBuilder.extract_metamodel: extract_metamodel() on every builder
ExtractBankBuilder(st, kind) ==
    [made |-> [i \in DOMAIN st.made |->
                  IF i \in Range(st.bank[kind]) THEN [st.made[i] EXCEPT !.extracts = @ + 1]
                  ELSE st.made[i]],
     bank |-> st.bank]

\* names_to_metamodels of the extracted bank: the key of each builder and the
\* name its extract_metamodel() gives the entity (name=self.name)
ExtractedNames(st, kind) ==
    [i \in DOMAIN st.bank[kind] |->
        [key |-> st.made[st.bank[kind][i]].key, name |-> st.made[st.bank[kind][i]].name]]

InitRun ==
    /\ feed \in {q \in SeqsNoRep(FeedNodes, MaxFeed) : NoRep(q) /\ q # <<>>}
    /\ system_info = NoInfo
    /\ bank_state = NoBanks
    /\ run_pc = "collect_system_info"
    /\ step = 0
    /\ prepared_banks = {}
    /\ model_banks = [k \in BankTypes |-> <<>>]
    /\ RecIdle
    /\ MatchIdle
    /\ PidIdle
    /\ EntityIdle
    /\ BankIdle
    /\ ActionIdle
    /\ MoreIdle

OutsideRun == UNCHANGED <<recVars, matchVars, pidVars, entVars, bankVars, actVars, moreVars>>

\* system_info = self.collect_system_info(node, include_hidden_topics=True)
DoCollectSystemInfo ==
    /\ run_pc = "collect_system_info"
    /\ system_info' = CollectSystemInfo(NoInfo, feed)
    /\ run_pc' = "collect_rosgraph_info"
    /\ step' = 1
    /\ UNCHANGED <<feed, bank_state, prepared_banks, model_banks>>
    /\ OutsideRun

RosgraphOutcome(after) ==
    /\ bank_state' = after
    /\ IF step = Len(RosgraphOrder)
       THEN run_pc' = "prepare" /\ step' = 1
       ELSE run_pc' = "collect_rosgraph_info" /\ step' = step + 1
    /\ UNCHANGED <<feed, system_info, prepared_banks, model_banks>>

AtRosgraph(helper) == run_pc = "collect_rosgraph_info" /\ RosgraphOrder[step] = helper

\* _collect_rosgraph_info: self._create_nodes_with_topics(...)
DoCreateNodesWithTopics ==
    /\ AtRosgraph("create_nodes_with_topics")
    /\ RosgraphOutcome(CreateNodesWithTopics(system_info))
    /\ OutsideRun

\* _collect_rosgraph_info: self._collect_component_info(node)
DoCollectComponentInfo ==
    /\ AtRosgraph("collect_component_info")
    /\ RosgraphOutcome(CollectComponentInfo(bank_state, feed))
    /\ OutsideRun

\* _collect_rosgraph_info: self._collect_actions_info(...)
DoCollectActionsInfo ==
    /\ AtRosgraph("collect_actions_info")
    /\ RosgraphOutcome(CollectActionsInfo(bank_state, system_info.actions))
    /\ OutsideRun

\* _collect_rosgraph_info: self._collect_services_info(...)
DoCollectServicesInfo ==
    /\ AtRosgraph("collect_services_info")
    /\ RosgraphOutcome(CollectServicesInfo(bank_state, system_info.services, feed))
    /\ OutsideRun

\* _collect_rosgraph_info: self._collect_parameters_info(node)
DoCollectParametersInfo ==
    /\ AtRosgraph("collect_parameters_info")
    /\ RosgraphOutcome(CollectParametersInfo(bank_state,
                           SortedSeq({feed[i].name : i \in DOMAIN feed}), feed))
    /\ OutsideRun

PrepareOutcome(after) ==
    /\ bank_state' = after
    /\ prepared_banks' = prepared_banks \cup {PrepareOrder[step]}
    /\ IF step = Len(PrepareOrder)
       THEN run_pc' = "validate" /\ step' = 0
       ELSE run_pc' = "prepare" /\ step' = step + 1
    /\ UNCHANGED <<feed, system_info, model_banks>>

\* ROSModelBuilder.prepare: the next bank builder's prepare()
PrepareBank ==
    /\ run_pc = "prepare"
    /\ PrepareOrder[step] # "MACHINE"
    /\ PrepareOutcome(PrepareBankBuilder(bank_state, PrepareOrder[step], feed))
    /\ OutsideRun

PrepareMachineBank ==
    /\ run_pc = "prepare"
    /\ PrepareOrder[step] = "MACHINE"
    /\ PrepareOutcome(PrepareMachines(bank_state, bank_state.bank["NODE"]))
    /\ OutsideRun

\* self._validate_and_update_models()
DoValidateAndUpdateModels ==
    /\ run_pc = "validate"
    /\ \E with_spec \in SUBSET Range(bank_state.bank["NODE"]) :
           bank_state' = ValidateAndUpdateModels(bank_state, with_spec)
    /\ run_pc' = "extract"
    /\ step' = 1
    /\ UNCHANGED <<feed, system_info, prepared_banks, model_banks>>
    /\ OutsideRun

\* ROSModelBuilder._extract_metamodels: the next bank builder's extraction
ExtractBank ==
    /\ run_pc = "extract"
    /\ bank_state' = ExtractBankBuilder(bank_state, ExtractOrder[step])
    /\ model_banks' = [model_banks EXCEPT ![ExtractOrder[step]] =
                           ExtractedNames(bank_state, ExtractOrder[step])]
    /\ IF step = Len(ExtractOrder)
       THEN run_pc' = "done" /\ step' = 0
       ELSE run_pc' = "extract" /\ step' = step + 1
    /\ UNCHANGED <<feed, system_info, prepared_banks>>
    /\ OutsideRun

NextRun ==
    \/ DoCollectSystemInfo
    \/ DoCreateNodesWithTopics
    \/ DoCollectComponentInfo
    \/ DoCollectActionsInfo
    \/ DoCollectServicesInfo
    \/ DoCollectParametersInfo
    \/ PrepareBank
    \/ PrepareMachineBank
    \/ DoValidateAndUpdateModels
    \/ ExtractBank

SpecRun == InitRun /\ [][NextRun]_vars


(***************************************************************************)
(* The topic builders of an ActionBuilder                                  *)
(***************************************************************************)
x_goal == <<"/", "g", "o", "a", "l">>
x_cancel == <<"/", "c", "a", "n", "c", "e", "l">>
x_feedback == <<"/", "f", "e", "e", "d", "b", "a", "c", "k">>
x_result == <<"/", "r", "e", "s", "u", "l", "t">>
x_status == <<"/", "s", "t", "a", "t", "u", "s">>
x_other == <<"/", "o", "t", "h", "e", "r">>
x_Action == <<"A", "c", "t", "i", "o", "n">>
x_Goal == <<"G", "o", "a", "l">>
x_Feedback == <<"F", "e", "e", "d", "b", "a", "c", "k">>
x_Result == <<"R", "e", "s", "u", "l", "t">>

CLIENT_PUBLISHED_TOPIC_SUFFIXES == {x_cancel, x_goal}
SERVER_PUBLISHED_TOPIC_SUFFIXES == {x_feedback, x_result, x_status}
TOPIC_SUFFIXES == CLIENT_PUBLISHED_TOPIC_SUFFIXES \cup SERVER_PUBLISHED_TOPIC_SUFFIXES
NUM_TOPIC_SUFFIXES == Cardinality(TOPIC_SUFFIXES)
CORE_TOPIC_SUFFIXES_TO_TYPE_TOKENS ==
    { [suffix |-> x_feedback, token |-> x_Feedback],
      [suffix |-> x_goal, token |-> x_Goal],
      [suffix |-> x_result, token |-> x_Result] }

\* s.endswith(suffix)
EndsWith(s, suffix) ==
    /\ Len(s) >= Len(suffix)
    /\ SubSeq(s, Len(s) - Len(suffix) + 1, Len(s)) = suffix

\* _EntityBuilder.__init__: self._name_suffix = f"/{name_tokens[-1]}"
NameSuffix(name) == <<"/">> \o LastSeg(name, "/")

\* the names of the topic builders offered to an action: the five topics of
\* the action /f, a topic with another suffix, a /feedback topic of /g
ActionTopicNames ==
    {n_fib \o x_goal, n_fib \o x_cancel, n_fib \o x_feedback, n_fib \o x_result,
     n_fib \o x_status, n_fib \o x_other, n_add \o x_feedback}

\* construct_type of a topic builder: None or a type string
TopicTypes == {NoneStr, n_fib \o x_Action \o x_Goal, n_fib \o x_Action \o x_Feedback,
               n_fib \o x_Action \o x_Result}

MaxTopics == 4

\* TopicBuilder.publisher_node_names
PublisherNodeNames(topic_builder) == {n \in topic_builder.published : ~NodeFilterOut(n)}
\* TopicBuilder.subscriber_node_names
SubscriberNodeNames(topic_builder) == {n \in topic_builder.subscribed : ~NodeFilterOut(n)}

\* self._topic_names_to_builders[topic_builder.name] = topic_builder
AddByName(by_name, topic_builder) ==
    {b \in by_name : b.name # topic_builder.name} \cup {topic_builder}

\* self._topic_name_suffixes_to_builders[topic_builder.name_suffix] = topic_builder
AddBySuffix(by_suffix, topic_builder) ==
    {e \in by_suffix : e.suffix # NameSuffix(topic_builder.name)}
        \cup {[suffix |-> NameSuffix(topic_builder.name), builder |-> topic_builder]}

\* _validate_topic_builders_have_required_suffixes
ValidateTopicBuildersHaveRequiredSuffixes(topic_builders) ==
    LET found_topic_suffixes == {NameSuffix(b.name) : b \in topic_builders}
    IN  /\ Cardinality(found_topic_suffixes) >= 3
        /\ found_topic_suffixes \subseteq TOPIC_SUFFIXES

\* (mutation) the core suffixes are only looked for, their types are not
ValidateCoreTopicBuildersPresent(by_suffix) ==
    \A core \in CORE_TOPIC_SUFFIXES_TO_TYPE_TOKENS :
        \E e \in by_suffix : e.suffix = core.suffix

\* _validate_core_topic_builders_have_required_types
ValidateCoreTopicBuildersHaveRequiredTypes(by_suffix) ==
    \A core \in CORE_TOPIC_SUFFIXES_TO_TYPE_TOKENS :
        \E e \in by_suffix :
            /\ e.suffix = core.suffix
            /\ e.builder.type # NoneStr
            /\ e.builder.type # <<>>
            /\ EndsWith(e.builder.type, x_Action \o core.token)

\* validate_action_topic_builders
ValidateActionTopicBuilders(by_name, by_suffix) ==
    /\ ValidateTopicBuildersHaveRequiredSuffixes(by_name)
    /\ ValidateCoreTopicBuildersHaveRequiredTypes(by_suffix)

SuffixKeys(by_suffix) == {e.suffix : e \in by_suffix}
SuffixGet(by_suffix, suffix) == (CHOOSE e \in by_suffix : e.suffix = suffix).builder

\* _count_action_node_appearances: the count added for one node name
CountActionNodeAppearances(by_suffix, publisher_suffixes, subscriber_suffixes, node_name) ==
    Cardinality({s \in publisher_suffixes :
                     node_name \in PublisherNodeNames(SuffixGet(by_suffix, s))})
    + Cardinality({s \in subscriber_suffixes :
                       node_name \in SubscriberNodeNames(SuffixGet(by_suffix, s))})

\* the node names that appear on a topic builder of the action
ActionNodeNames(by_suffix) ==
    UNION {PublisherNodeNames(e.builder) \cup SubscriberNodeNames(e.builder) : e \in by_suffix}

\* (mutation) a node name is valid when it appears at all
GatherAnyActionNodeNames(by_suffix, publisher_suffixes, subscriber_suffixes) ==
    {n \in ActionNodeNames(by_suffix) :
        CountActionNodeAppearances(by_suffix, publisher_suffixes, subscriber_suffixes, n) >= 1}

\* _gather_valid_action_node_names_based_on_appearance_counts, on the counts
\* of _count_action_node_appearances
GatherValidActionNodeNames(by_suffix, publisher_suffixes, subscriber_suffixes) ==
    {n \in ActionNodeNames(by_suffix) :
        CountActionNodeAppearances(by_suffix, publisher_suffixes, subscriber_suffixes, n)
            = NUM_TOPIC_SUFFIXES}

\* the client and server node names of an action: a client publishes the
\* client-side suffixes and subscribes the server-side ones, a server the
\* other way round; topic_name_suffixes_to_builders[suffix] raises KeyError
\* for a suffix without topic builder
GatherClientAndServerNodeNames(by_suffix) ==
    IF ~(TOPIC_SUFFIXES \subseteq SuffixKeys(by_suffix))
    THEN [called |-> TRUE, raised |-> TRUE, clients |-> {}, servers |-> {}]
    ELSE [called |-> TRUE, raised |-> FALSE,
          clients |-> GatherValidActionNodeNames(by_suffix, CLIENT_PUBLISHED_TOPIC_SUFFIXES,
                                                 SERVER_PUBLISHED_TOPIC_SUFFIXES),
          servers |-> GatherValidActionNodeNames(by_suffix, SERVER_PUBLISHED_TOPIC_SUFFIXES,
                                                 CLIENT_PUBLISHED_TOPIC_SUFFIXES)]

InitAction ==
    /\ ActionIdle
    /\ RecIdle
    /\ MatchIdle
    /\ PidIdle
    /\ EntityIdle
    /\ BankIdle
    /\ RunIdle
    /\ MoreIdle

OutsideAction == UNCHANGED <<recVars, matchVars, pidVars, entVars, bankVars, runVars, moreVars>>

AddOutcome(topic_builder) ==
    /\ topic_names_to_builders' = AddByName(topic_names_to_builders, topic_builder)
    /\ topic_name_suffixes_to_builders' =
           AddBySuffix(topic_name_suffixes_to_builders, topic_builder)
    /\ UNCHANGED <<validated, action_node_names>>
    /\ OutsideAction

\* action_builder.add_topic_builder(topic_builder), the nodes of the topic
\* left aside
AddTopicBuilder ==
    /\ ~validated.called
    /\ \E name \in ActionTopicNames, type \in TopicTypes :
           /\ Cardinality({b.name : b \in topic_names_to_builders} \cup {name}) <= MaxTopics
           /\ AddOutcome([name |-> name, type |-> type, published |-> {}, subscribed |-> {}])

\* action_builder.validate_action_topic_builders()
CallValidateActionTopicBuilders ==
    /\ ~validated.called
    /\ validated' = [called |-> TRUE,
                     result |-> ValidateActionTopicBuilders(topic_names_to_builders,
                                                            topic_name_suffixes_to_builders)]
    /\ UNCHANGED <<topic_names_to_builders, topic_name_suffixes_to_builders, action_node_names>>
    /\ OutsideAction

NextAction ==
    \/ AddTopicBuilder
    \/ CallValidateActionTopicBuilders

SpecAction == InitAction /\ [][NextAction]_vars

\* the type a topic of an action carries, by its suffix
TypeOfSuffix(suffix) ==
    CASE suffix = x_goal     -> n_fib \o x_Action \o x_Goal
      [] suffix = x_feedback -> n_fib \o x_Action \o x_Feedback
      [] suffix = x_result   -> n_fib \o x_Action \o x_Result
      [] OTHER               -> NoneStr

\* the nodes seen publishing or subscribing a topic of the action
NodeNameSets == {{}, {n_client}, {n_server}}

\* action_builder.add_topic_builder(topic_builder) for a topic of the action
\* not added yet, with the nodes that publish and subscribe it
AddTopicBuilderWithNodes ==
    /\ ~validated.called
    /\ \E suffix \in TOPIC_SUFFIXES, published \in NodeNameSets, subscribed \in NodeNameSets :
           /\ suffix \notin SuffixKeys(topic_name_suffixes_to_builders)
           /\ AddOutcome([name |-> n_fib \o suffix, type |-> TypeOfSuffix(suffix),
                          published |-> published, subscribed |-> subscribed])

\* the client and server node names are gathered for a validated action
CallGatherClientAndServerNodeNames ==
    /\ validated.called
    /\ ~action_node_names.called
    /\ action_node_names' = GatherClientAndServerNodeNames(topic_name_suffixes_to_builders)
    /\ UNCHANGED <<topic_names_to_builders, topic_name_suffixes_to_builders, validated>>
    /\ OutsideAction

NextRoles ==
    \/ AddTopicBuilderWithNodes
    \/ CallValidateActionTopicBuilders
    \/ CallGatherClientAndServerNodeNames

SpecRoles == InitAction /\ [][NextRoles]_vars
(***************************************************************************)
(* The candidate test of get_node_pid, on one process                      *)
(***************************************************************************)
s_ns == <<"/", "n", "s">>
s_node == <<"n", "o", "d", "e">>
s_talker_node == s_talker \o <<"_">> \o s_node

\* process records of a snapshot, by name and command line: the templates, a
\* process whose command line psutil could not read, a process whose last
\* path segment shares half its words with a node name, a process named as
\* a node
CandidateProcs ==
    Range(Templates) \cup
    { [name |-> s_talker, exe |-> s_lib \o s_talker, cmdline |-> <<>>],
      [name |-> s_python3, exe |-> s_bin \o s_python3,
       cmdline |-> <<s_python3, s_lib \o s_talker_node>>],
      [name |-> s_listener, exe |-> s_lib \o s_listener,
       cmdline |-> <<s_lib \o s_node, s_ns_arg \o s_ns1>>] }

CandidateNamespaces == {s_root, s_ns1, s_ns}
CandidateNodeNames == {s_talker, s_talker_2, s_listener, s_talker_node}

InitCandidate ==
    /\ \E proc \in CandidateProcs, namespace \in CandidateNamespaces,
          node_name \in CandidateNodeNames :
           candidate_check = [called |-> FALSE, proc |-> proc, namespace |-> namespace,
                              node_name |-> node_name]
    /\ RecIdle
    /\ MatchIdle
    /\ PidIdle
    /\ EntityIdle
    /\ BankIdle
    /\ RunIdle
    /\ ActionIdle
    /\ FilterIdle
    /\ WaitIdle
    /\ MainIdle

OutsideCandidate ==
    UNCHANGED <<recVars, matchVars, pidVars, entVars, bankVars, runVars, actVars,
                filtVars, waitVars, mainVars>>

\* get_node_pid: the body of the loop over NodeBuilder.__processes for one
\* process
CheckCandidate ==
    /\ ~candidate_check.called
    /\ candidate_check' =
           [called |-> TRUE, proc |-> candidate_check.proc,
            namespace |-> candidate_check.namespace,
            node_name |-> candidate_check.node_name,
            result |-> IsCandidate(candidate_check.proc, candidate_check.namespace,
                                   candidate_check.node_name)]
    /\ OutsideCandidate

NextCandidate == CheckCandidate

SpecCandidate == InitCandidate /\ [][NextCandidate]_vars


(***************************************************************************)
(* The Filter classes: class attributes, get_filter, should_filter_out.    *)
(* An attribute read on a class is looked up on the class itself and then  *)
(* on its base class Filter; an assignment cls.INSTANCE = ... sets it on   *)
(* cls.                                                                    *)
(***************************************************************************)
BASE_EXCLUSIONS ==
    [c \in FilterClasses |-> IF c = "NodeFilter" THEN {"/roslaunch"} ELSE {}]
DEBUG_EXCLUSIONS ==
    [c \in FilterClasses |->
        CASE c = "NodeFilter" -> {"/rosout"}
          [] c = "TopicFilter" -> {"/rosout", "/rosout_agg", "/statistics"}
          [] c = "ServiceTypeFilter" -> {"roscpp/GetLoggers", "roscpp/SetLoggerLevel"}
          [] OTHER -> {}]
TF_EXCLUSIONS ==
    [c \in FilterClasses |-> IF c = "TopicFilter" THEN {"/tf", "/tf_static"} ELSE {}]

\* cls.BASE_EXCLUSIONS now: the set object of the class, with what was added
BaseExclusionsNow(cls, added) ==
    IF cls = "NodeFilter" THEN BASE_EXCLUSIONS[cls] \cup added ELSE BASE_EXCLUSIONS[cls]

\* cls.INSTANCE: the attribute of the class, else the one of Filter
ClassInstance(instances, cls) ==
    IF instances[cls] # UnsetInstance THEN instances[cls] ELSE instances["Filter"]

\* (mutation) the debug exclusions are taken whatever filter_out_debug is
FilterInitDebugAlways(cls, filter_out_debug, filter_out_tf) ==
    [cls |-> cls,
     built_with |-> [filter_out_debug |-> filter_out_debug, filter_out_tf |-> filter_out_tf],
     _debug_exclusions |-> DEBUG_EXCLUSIONS[cls],
     _tf_exclusions |-> IF filter_out_tf THEN TF_EXCLUSIONS[cls] ELSE {}]

\* Filter.__init__: _base_exclusions is the class's set object (read through
\* cls when asked); built_with keeps the two arguments
FilterInit(cls, filter_out_debug, filter_out_tf) ==
    [cls |-> cls,
     built_with |-> [filter_out_debug |-> filter_out_debug, filter_out_tf |-> filter_out_tf],
     _debug_exclusions |-> IF filter_out_debug THEN DEBUG_EXCLUSIONS[cls] ELSE {},
     _tf_exclusions |-> IF filter_out_tf THEN TF_EXCLUSIONS[cls] ELSE {}]

\* Filter.should_filter_out
should_filter_out(self, item, added) ==
    \/ item \in BaseExclusionsNow(self.cls, added)
    \/ item \in self._debug_exclusions
    \/ item \in self._tf_exclusions

\* what cls.get_filter() returns
GetFilterReturns(instances, cls, flags) ==
    IF ClassInstance(instances, cls) = NoInstance
    THEN FilterInit(cls, flags.FILTER_OUT_DEBUG, flags.FILTER_OUT_TF)
    ELSE ClassInstance(instances, cls)

MaxFilterOps == 2
FilterItems == {"/roslaunch", "/rosout", "/tf", "/ros_snapshot", "roscpp/GetLoggers",
                "/chatter"}
SnapshotNodeNames == {"/ros_snapshot"}

InitFilter ==
    /\ FilterIdle
    /\ RecIdle
    /\ MatchIdle
    /\ PidIdle
    /\ EntityIdle
    /\ BankIdle
    /\ RunIdle
    /\ ActionIdle
    /\ CandidateIdle
    /\ WaitIdle
    /\ MainIdle

OutsideFilter ==
    UNCHANGED <<recVars, matchVars, pidVars, entVars, bankVars, runVars, actVars,
                candVars, waitVars, mainVars>>

\* filters.Filter.FILTER_OUT_DEBUG = ...; filters.Filter.FILTER_OUT_TF = ...
SetFilterFlags ==
    /\ \E d, t \in BOOLEAN :
           /\ filter_flags # [FILTER_OUT_DEBUG |-> d, FILTER_OUT_TF |-> t]
           /\ filter_flags' = [FILTER_OUT_DEBUG |-> d, FILTER_OUT_TF |-> t]
    /\ UNCHANGED <<filter_added, filter_instance, filter_log>>
    /\ OutsideFilter

\* filters.NodeFilter.BASE_EXCLUSIONS.add(name)
AddBaseExclusion ==
    /\ \E name \in SnapshotNodeNames \ filter_added :
           filter_added' = filter_added \cup {name}
    /\ UNCHANGED <<filter_flags, filter_instance, filter_log>>
    /\ OutsideFilter

\* cls.get_filter()
CallGetFilter ==
    /\ Len(filter_log) < MaxFilterOps
    /\ \E cls \in FilterClasses :
           /\ filter_instance' =
                  IF ClassInstance(filter_instance, cls) = NoInstance
                  THEN [filter_instance EXCEPT
                            ![cls] = GetFilterReturns(filter_instance, cls, filter_flags)]
                  ELSE filter_instance
           /\ filter_log' = Append(filter_log,
                  [op |-> "get_filter", cls |-> cls, flags |-> filter_flags,
                   returned |-> GetFilterReturns(filter_instance, cls, filter_flags)])
    /\ UNCHANGED <<filter_flags, filter_added>>
    /\ OutsideFilter

\* should_filter_out(item) on an instance a get_filter call returned
CallShouldFilterOut ==
    /\ Len(filter_log) < MaxFilterOps
    /\ \E i \in DOMAIN filter_log, item \in FilterItems :
           /\ filter_log[i].op = "get_filter"
           /\ filter_log' = Append(filter_log,
                  [op |-> "should_filter_out", self |-> filter_log[i].returned,
                   item |-> item, flags |-> filter_flags,
                   base |-> BaseExclusionsNow(filter_log[i].returned.cls, filter_added),
                   answer |-> should_filter_out(filter_log[i].returned, item, filter_added)])
    /\ UNCHANGED <<filter_flags, filter_added, filter_instance>>
    /\ OutsideFilter

NextFilter ==
    \/ SetFilterFlags
    \/ AddBaseExclusion
    \/ CallGetFilter
    \/ CallShouldFilterOut

SpecFilter == InitFilter /\ [][NextFilter]_vars

(***************************************************************************)
(* timeout_call_list_params: the main flow and the background thread.      *)
(* The main flow: thread.start(), thread.join(timeout), thread.is_alive(), *)
(* return.  The thread: the call, the assignment to result_holder[0], the  *)
(* end of the thread; or an exception, which ends the thread.              *)
(***************************************************************************)
WaitNodeNames == {"/talker", "/listener", "/server"}
\* what call_list_parameters can return for a node
CallResults == {"names", "no names"}

\* thread.is_alive()
IsAlive(w) == w.state \in {"running", "assigned"}

\* (mutation) the holder is read whether or not the thread is alive
ResultFromHolder(w, holder) == holder

\* if thread.is_alive(): result = None, else: result = result_holder[0]
ResultAfterWait(w, holder) == IF IsAlive(w) THEN "None" ELSE holder

InitWait ==
    /\ wait_pc = "start"
    /\ worker = [state |-> "not started", value |-> "None"]
    /\ result_holder = "None"
    /\ \E node_name \in WaitNodeNames : wait_result = [node_name |-> node_name]
    /\ RecIdle
    /\ MatchIdle
    /\ PidIdle
    /\ EntityIdle
    /\ BankIdle
    /\ RunIdle
    /\ ActionIdle
    /\ CandidateIdle
    /\ FilterIdle
    /\ MainIdle

OutsideWait ==
    UNCHANGED <<recVars, matchVars, pidVars, entVars, bankVars, runVars, actVars,
                candVars, filtVars, mainVars>>

\* result_holder = [None]; thread.start()
ThreadStart ==
    /\ wait_pc = "start"
    /\ worker' = [worker EXCEPT !.state = "running"]
    /\ wait_pc' = "join"
    /\ UNCHANGED <<result_holder, wait_result>>
    /\ OutsideWait

\* thread.start() raises: except Exception, return None
ThreadStartRaises ==
    /\ wait_pc = "start"
    /\ wait_pc' = "returned"
    /\ wait_result' = [node_name |-> wait_result.node_name, returned |-> "None"]
    /\ UNCHANGED <<worker, result_holder>>
    /\ OutsideWait

\* thread.join(timeout) returns: the thread has ended, or the timeout has
\* elapsed with the thread alive
ThreadJoin ==
    /\ wait_pc = "join"
    /\ wait_pc' = "is_alive"
    /\ wait_result' = [node_name |-> wait_result.node_name, at_wait_end |-> worker]
    /\ UNCHANGED <<worker, result_holder>>
    /\ OutsideWait

\* if thread.is_alive(): ... result = None, else: result = result_holder[0]
CheckIsAlive ==
    /\ wait_pc = "is_alive"
    /\ wait_pc' = "return"
    /\ wait_result' = [node_name |-> wait_result.node_name,
                       at_wait_end |-> wait_result.at_wait_end,
                       at_test |-> worker,
                       result |-> ResultAfterWait(worker, result_holder)]
    /\ UNCHANGED <<worker, result_holder>>
    /\ OutsideWait

\* return result
ReturnResult ==
    /\ wait_pc = "return"
    /\ wait_pc' = "returned"
    /\ wait_result' = [node_name |-> wait_result.node_name,
                       at_wait_end |-> wait_result.at_wait_end,
                       at_test |-> wait_result.at_test,
                       result |-> wait_result.result,
                       returned |-> wait_result.result]
    /\ UNCHANGED <<worker, result_holder>>
    /\ OutsideWait

\* target: call_list_parameters returns and result_holder[0] is assigned
WorkerAssigns ==
    /\ worker.state = "running"
    /\ \E v \in CallResults :
           /\ worker' = [state |-> "assigned", value |-> v]
           /\ result_holder' = v
    /\ UNCHANGED <<wait_pc, wait_result>>
    /\ OutsideWait

\* target returns: the thread ends
WorkerEnds ==
    /\ worker.state = "assigned"
    /\ worker' = [worker EXCEPT !.state = "finished"]
    /\ UNCHANGED <<wait_pc, result_holder, wait_result>>
    /\ OutsideWait

\* call_list_parameters raises in the thread: the thread ends
WorkerRaises ==
    /\ worker.state = "running"
    /\ worker' = [worker EXCEPT !.state = "raised"]
    /\ UNCHANGED <<wait_pc, result_holder, wait_result>>
    /\ OutsideWait

NextWait ==
    \/ ThreadStart
    \/ ThreadStartRaises
    \/ ThreadJoin
    \/ CheckIsAlive
    \/ ReturnResult
    \/ WorkerAssigns
    \/ WorkerEnds
    \/ WorkerRaises

SpecWait == InitWait /\ [][NextWait]_vars

(***************************************************************************)
(* main: load the specifications, take the snapshot, save the models       *)
(***************************************************************************)
\* the output options of the command line, in the order main handles them
SaveOrder == <<"yaml", "json", "pickle", "human", "graph">>
Formats == Range(SaveOrder)

\* how snapshot.snapshot() can end: it returns True, it returns False
\* (socket.error, ValidationError), or the process ends in it (sys.exit(-1)
\* of _validate_and_update_models, an exception that is not caught)
SnapshotOutcomes == {"True", "False", "aborted"}

\* (mutation) the models are saved whatever snapshot() returned
SavesAfterAnySnapshot(outcome) == outcome \in {"True", "False"}

\* if snapshot.snapshot(): ... else: "Failed to extract model of ROS system"
SavesAfter(outcome) == outcome = "True"

\* what main saves for one output option: the deployment model and, for
\* every option but graph, the specification model when it was updated
SavedFor(format, update) ==
    {<<format, "deployment">>} \cup
    (IF update /\ format # "graph" THEN {<<format, "specification">>} ELSE {})

InitMain ==
    /\ options \in SUBSET Formats
    /\ main_pc = "load_specifications"
    /\ snapshot_result = "not called"
    /\ specification_update = FALSE
    /\ persisted = {}
    /\ RecIdle
    /\ MatchIdle
    /\ PidIdle
    /\ EntityIdle
    /\ BankIdle
    /\ RunIdle
    /\ ActionIdle
    /\ CandidateIdle
    /\ FilterIdle
    /\ WaitIdle

OutsideMain ==
    UNCHANGED <<recVars, matchVars, pidVars, entVars, bankVars, runVars, actVars,
                candVars, filtVars, waitVars>>

\* snapshot.load_specifications(...) returns True
LoadSpecifications ==
    /\ main_pc = "load_specifications"
    /\ main_pc' = "snapshot"
    /\ UNCHANGED <<options, snapshot_result, specification_update, persisted>>
    /\ OutsideMain

\* snapshot.load_specifications(...) returns False: sys.exit(-1)
LoadSpecificationsFails ==
    /\ main_pc = "load_specifications"
    /\ main_pc' = "exited"
    /\ UNCHANGED <<options, snapshot_result, specification_update, persisted>>
    /\ OutsideMain

\* snapshot(): _update_node_specification runs for a node
SnapshotLearns ==
    /\ main_pc = "snapshot"
    /\ ~specification_update
    /\ specification_update' = TRUE
    /\ UNCHANGED <<options, main_pc, snapshot_result, persisted>>
    /\ OutsideMain

\* snapshot() ends
SnapshotEnds ==
    /\ main_pc = "snapshot"
    /\ \E outcome \in SnapshotOutcomes :
           /\ snapshot_result' = outcome
           /\ main_pc' = IF outcome = "aborted" THEN "exited"
                         ELSE IF SavesAfter(outcome) THEN "save"
                         ELSE "done"
    /\ UNCHANGED <<options, specification_update, persisted>>
    /\ OutsideMain

\* the options that are still to be handled
FormatsLeft == {f \in options : <<f, "deployment">> \notin persisted}

\* if options.<format> is not None: save the models in that format
SaveModels ==
    /\ main_pc = "save"
    /\ FormatsLeft # {}
    /\ \E i \in DOMAIN SaveOrder :
           /\ SaveOrder[i] \in FormatsLeft
           /\ \A j \in 1..(i - 1) : SaveOrder[j] \notin FormatsLeft
           /\ persisted' = persisted \cup SavedFor(SaveOrder[i], specification_update)
    /\ UNCHANGED <<options, main_pc, snapshot_result, specification_update>>
    /\ OutsideMain

\* "Finished snapshot in ... seconds", print_statistics, print_unmatched
FinishMain ==
    /\ main_pc = "save"
    /\ FormatsLeft = {}
    /\ main_pc' = "done"
    /\ UNCHANGED <<options, snapshot_result, specification_update, persisted>>
    /\ OutsideMain

NextMain ==
    \/ LoadSpecifications
    \/ LoadSpecificationsFails
    \/ SnapshotLearns
    \/ SnapshotEnds
    \/ SaveModels
    \/ FinishMain

SpecMain == InitMain /\ [][NextMain]_vars
(***************************************************************************)
(* Claims about the specification reconciler                               *)
(***************************************************************************)
\* A category matches in full: the observed items can be matched one-to-one to
\* specification entries of the same type (None declares no entries).
CategoryMatchesInFull(names, io_builders, spec_types) ==
    \A t \in {io_builders[n] : n \in Range(names)} :
        Cardinality({n \in Range(names) : io_builders[n] = t})
            <= Cardinality({k \in DictKeys(spec_types.data) :
                               DictGet(spec_types.data, k) = t})

AllCategoriesMatch(n) ==
    \A i \in DOMAIN ValidateCalls :
        CategoryMatchesInFull(node_bank[n][ValidateCalls[i][2]],
                              bank_builders[ValidateCalls[i][3]],
                              node_specs[node_bank[n].spec][ValidateCalls[i][1]])

\* C1: _validate_node_builder reports the node valid if and only if every one of
\* the six categories matches in full; a category with no observed items never
\* makes the node invalid.
C1_ValidIffEveryCategoryMatches ==
    \A n \in DOMAIN is_valid :
        is_valid[n] # "not called" => (is_valid[n] = "True" <=> AllCategoriesMatch(n))

\* key is the token itself or the token suffixed _<n>
TokenOrSuffixed(key, token) ==
    key = token \/ \E n \in 1..9 : key = token \o <<"_">> \o IntStr(n)

AllCalls == <<ValidateCalls[1]>> \o LearnCalls

\* node n has been learned into specification s by this step: every observed name
\* is recorded under its token (or token_<n>) with its type, what the category
\* held is still there, and the specification is validated
LearnedInto(s, n) ==
    /\ node_specs'[s].validated
    /\ \A i \in DOMAIN AllCalls :
        /\ node_specs'[s][AllCalls[i][1]].set
        /\ \A x \in Range(node_bank[n][AllCalls[i][2]]) :
              \E k \in DictKeys(node_specs'[s][AllCalls[i][1]].data) :
                  /\ TokenOrSuffixed(k, TrailingToken(x))
                  /\ DictGet(node_specs'[s][AllCalls[i][1]].data, k)
                         = bank_builders[AllCalls[i][3]][x]
        /\ \A k \in DictKeys(node_specs[s][AllCalls[i][1]].data) :
              k \in DictKeys(node_specs'[s][AllCalls[i][1]].data)
    /\ (node_bank[n].parameter_names = <<p_bar_thresh>>
          /\ node_specs[s].parameters.data = <<>>)
       => node_specs'[s].parameters.data = << <<k_thresh, ValueType("float")>> >>

\* C2: _update_node_specification on an unvalidated specification records every
\* observed name of every category under its trailing token (suffixed _<n> on a
\* collision) with the item's type, keeps what the category held, and ends with
\* validated == True; a node whose only parameter is thresh, learned into a
\* specification with no parameters, leaves parameters == {thresh: its type}.
C2_LearnRecordsEveryNameAndValidates ==
    [][\A s \in DOMAIN learned :
          learned'[s] # learned[s] => LearnedInto(s, learned'[s][Len(learned'[s])])]_vars

C5_RemainingCategoriesStillMatched ==
    \A n \in DOMAIN is_valid :
        is_valid[n] = "False" =>
            /\ {ValidateCalls[i][1] : i \in DOMAIN ValidateCalls} \subseteq Range(matched_calls[n])
            /\ node_idx > n

(***************************************************************************)
(* Claims about _match_token_types on its own                              *)
(***************************************************************************)
\* the permutations of a tuple
Perms(q) ==
    {[i \in DOMAIN q |-> q[f[i]]] :
        f \in {g \in [DOMAIN q -> DOMAIN q] : \A i, j \in DOMAIN q : i # j => g[i] # g[j]}}

\* observed names and specification entries are connected by a bijection that
\* respects the types
ConnectedByBijection(io_names, io_builders, spec_types) ==
    /\ spec_types.set
    /\ \E f \in [Range(io_names) -> DictKeys(spec_types.data)] :
          /\ \A a, b \in Range(io_names) : a # b => f[a] # f[b]
          /\ \A k \in DictKeys(spec_types.data) : \E a \in Range(io_names) : f[a] = k
          /\ \A a \in Range(io_names) : DictGet(spec_types.data, f[a]) = io_builders[a]

\* every trailing token is itself a specification token of the item's type
TokensAgree(io_names, io_builders, spec_types) ==
    \A a \in Range(io_names) :
        /\ TrailingToken(a) \in DictKeys(spec_types.data)
        /\ DictGet(spec_types.data, TrailingToken(a)) = io_builders[a]

SameOutcome(r, out) == r.ret = out.ret /\ r.io_names = out.io_names

\* C4: for observed names and a specification map connected by a type-respecting
\* bijection the category is valid, every name is assigned an entry of its type
\* (its own token when the tokens agree), and verdict and assignment are the same
\* for every insertion order of the names and of the entries.
C4_TokenMatchIndependentOfInsertionOrder ==
    (match_out # MatchNotCalled
       /\ ConnectedByBijection(match_in.io_names, match_in.io_builders, match_in.spec_types))
    => /\ match_out.ret = "True"
       /\ \A a \in Range(match_in.io_names) :
             /\ match_out.io_names[a] \in DictKeys(match_in.spec_types.data)
             /\ DictGet(match_in.spec_types.data, match_out.io_names[a])
                    = match_in.io_builders[a]
             /\ TokensAgree(match_in.io_names, match_in.io_builders, match_in.spec_types)
                    => match_out.io_names[a] = TrailingToken(a)
       /\ \A p \in Perms(match_in.io_names), d \in Perms(match_in.spec_types.data) :
             SameOutcome(MatchTokenTypes(p, match_in.io_builders, DictCat(d)), match_out)

\* a call on two observed names, one of them renamed, connected by a bijection
C4_Witness ==
    /\ match_out # MatchNotCalled
    /\ Len(match_in.io_names) = 2
    /\ ConnectedByBijection(match_in.io_names, match_in.io_builders, match_in.spec_types)
    /\ ~TokensAgree(match_in.io_names, match_in.io_builders, match_in.spec_types)

(***************************************************************************)
(* Claims about process matching                                           *)
(***************************************************************************)
\* get_node_pid is called in this step
Called == last_call'.n # last_call.n

\* the qualified name get_node_pid writes for builder b
QualifiedOf(b) == QualifiedName(NodeCatalog[b].namespace, NodeCatalog[b].node)

\* the assigned marker names the node of builder b
AssignedTo(marker, b) ==
    marker # NoneStr /\ QualifiedOf(b) \in Range(Split(marker, ","))

\* C6 (as stated): over any sequence of get_node_pid calls of one run, a process
\* whose assigned marker is already set is never selected for a different node.
C6_AssignedNeverSelectedForAnotherNode ==
    [][(Called /\ last_call'.pid # 0) =>
          ~\E c \in Builders \ {last_call'.b} :
              AssignedTo(ProcOf(processes, last_call'.pid).assigned, c)]_vars

\* C6 (amended): when more than one process is a candidate, the process selected
\* had no assigned marker; an already assigned process is selected only as the
\* sole candidate, and the node's qualified name is then appended after a comma.
C6_AssignedSelectedOnlyAsSoleCandidate ==
    [][(Called /\ last_call'.pid # 0) =>
          /\ Cardinality(last_call'.candidates) > 1
                => ProcOf(processes, last_call'.pid).assigned = NoneStr
          /\ ProcOf(processes, last_call'.pid).assigned # NoneStr
                => /\ last_call'.candidates = {last_call'.pid}
                   /\ ProcOf(processes', last_call'.pid).assigned
                         = ProcOf(processes, last_call'.pid).assigned
                              \o <<",">> \o QualifiedOf(last_call'.b)]_vars

\* a process was selected among several candidates while another candidate,
\* already assigned to another node, was passed over
C6_Witness ==
    /\ last_call.pid # 0
    /\ Cardinality(last_call.candidates) > 1
    /\ \E p \in last_call.candidates \ {last_call.pid} :
          \E c \in Builders \ {last_call.b} :
              AssignedTo(ProcOf(last_call.before, p).assigned, c)

\* C8: get_node_pid never produces a partial result: when it returns a pid, that
\* process's marker holds the qualified name (set, or appended after a comma),
\* the builder's record is the snapshot entry of the pid (the assert of
\* _gather_process_info holds) and nothing else changes; when it returns no
\* match, no marker and no builder's record is modified by it.
C8_DefiniteMatchOrNothingChanged ==
    [][Called =>
          /\ \A c \in Builders \ {last_call'.b} : builders'[c] = builders[c]
          /\ last_call'.dict_before = builders[last_call'.b].process_dict
          /\ IF last_call'.pid # 0
             THEN /\ ProcOf(processes', last_call'.pid).assigned
                       = IF ProcOf(processes, last_call'.pid).assigned = NoneStr
                         THEN QualifiedOf(last_call'.b)
                         ELSE ProcOf(processes, last_call'.pid).assigned
                                 \o <<",">> \o QualifiedOf(last_call'.b)
                  /\ last_call'.dict_after = ProcDict(last_call'.pid)
                  /\ builders'[last_call'.b].process_dict = ProcDict(last_call'.pid)
                  /\ \A i \in DOMAIN processes :
                        processes[i].pid # last_call'.pid => processes'[i] = processes[i]
             ELSE /\ processes' = processes
                  /\ last_call'.dict_after = last_call'.dict_before]_vars

\* a pid was returned for a process that already carried a marker
C8_Witness ==
    /\ last_call.pid # 0
    /\ ProcOf(last_call.before, last_call.pid).assigned # NoneStr
    /\ builders[last_call.b].process_dict = ProcDict(last_call.pid)

\* the snapshot of the scenario: python3 .../talker and python3 .../talker_2
ScenarioSnapshot(procs) ==
    /\ Len(procs) = 2
    /\ {procs[i].cmdline : i \in DOMAIN procs} = {Templates[1].cmdline, Templates[2].cmdline}

\* the call is get_node_pid('/', 'talker', ...) on the scenario's snapshot
ScenarioCall == last_call.b = 1 /\ ScenarioSnapshot(last_call.before)

\* C9 (as stated): in the scenario both processes are candidates and pruning
\* leaves exactly one unassigned candidate, so a process is selected without a
\* guess.
C9_ScenarioSelectsWithoutGuess ==
    (ScenarioCall /\ ~last_call.guess) =>
        /\ last_call.candidates = Range(PidsOf(last_call.before))
        /\ Len(last_call.remaining) = 1
        /\ last_call.pid # 0

\* no process of the snapshot has been selected for a node yet
NoneSelected(procs) ==
    \A i \in DOMAIN procs : \A c \in Builders : ~AssignedTo(procs[i].assigned, c)

\* C9 (amended): in the scenario, before any process has been selected, both
\* processes are candidates; if one is the other's parent only the child remains
\* and is selected; otherwise both remain, guess=False returns no match and
\* guess=True selects the first in snapshot order.
C9_ScenarioNeedsGuessUnlessPruned ==
    (ScenarioCall /\ NoneSelected(last_call.before)) =>
        /\ last_call.candidates = Range(PidsOf(last_call.before))
        /\ IF \E i, j \in 1..2 : last_call.before[i].ppid = last_call.before[j].pid
           THEN \E i, j \in 1..2 :
                   /\ last_call.before[i].ppid = last_call.before[j].pid
                   /\ last_call.remaining = <<last_call.before[i].pid>>
                   /\ last_call.pid = last_call.before[i].pid
           ELSE /\ last_call.remaining = PidsOf(last_call.before)
                /\ last_call.pid = IF last_call.guess THEN last_call.before[1].pid ELSE 0

\* the scenario with two unrelated, unmarked processes, settled by a guess
C9_Witness ==
    /\ ScenarioCall
    /\ \A i \in 1..2 : last_call.before[i].ppid = 0 /\ last_call.before[i].assigned = NoneStr
    /\ last_call.guess
    /\ last_call.pid = last_call.before[1].pid

\* C10: if no process is matched to a node, every executable_* accessor of its
\* builder returns the sentinel Unknown '<key>' for '<name>' of its attribute.
C10_UnmatchedAccessorsReturnSentinel ==
    \A b \in DOMAIN builders :
        (builders[b].phase = "extracted" /\ builders[b].process_dict = EmptyDict)
            => \A a \in Accessors :
                  telemetry[b][a] = Sentinel(AccessorKey[a], builders[b].name)

(***************************************************************************)
(* Claims about update_attributes                                          *)
(***************************************************************************)
\* name and data are None or equal as Python compares them
SameField(a, b) == PyEq(a, b)

\* C11: update_attributes is idempotent for identical input on every field
\* but version: a second call with the keyword arguments of the first leaves
\* name and data as the first call left them.
C11_SecondIdenticalCallKeepsFields ==
    [][(update_calls >= 1 /\ kwargs' = kwargs)
          => /\ SameField(entity'.name, entity.name)
             /\ SameField(entity'.data, entity.data)]_vars

\* what a field held before a call is still in it after the call
Preserved(before, after) ==
    CASE before.kind = "list" ->
             after.kind = "list" /\ Range(before.v) \subseteq Range(after.v)
      [] before.kind = "set" ->
             after.kind = "set" /\ Range(before.v) \subseteq Range(after.v)
      [] before.kind = "dict" ->
             /\ after.kind = "dict"
             /\ \A k \in FlatKeys(before.v) :
                    k \in FlatKeys(after.v) /\ FlatGet(after.v, k) = FlatGet(before.v, k)
      [] before.kind = "str" ->
             \/ after = before
             \/ after.kind = "list" /\ before.v[1] \in Range(after.v)
      [] OTHER -> TRUE

FieldOf(e, key) == IF key = "name" THEN e.name ELSE e.data

\* a None incoming value leaves its field as it was
NoneChangesNothing ==
    \A i \in DOMAIN kwargs :
        (kwargs[i].value.kind = "none" /\ kwargs[i].key # "version")
            => FieldOf(entity, kwargs[i].key) = FieldOf(entity_before, kwargs[i].key)

\* C12: update_attributes is additive and non-destructive: after a call every
\* prior list element, set member, dict key with its value and prior string
\* is still present in its field, and a None incoming value changes nothing.
C12_PriorContentStillPresent ==
    update_calls >= 1
        => /\ Preserved(entity_before.name, entity.name)
           /\ Preserved(entity_before.data, entity.data)
           /\ NoneChangesNothing

VersionArgOf(kw) == {kw[i] : i \in {j \in DOMAIN kw : kw[j].key = "version"}}

\* C13: a returning call that supplies a non-None version sets version to
\* max(current, incoming) + 1, also when incoming equals current; a None or
\* absent version leaves it; no call ever lowers the version.
C13_VersionIsMaxPlusOne ==
    [][(update_calls' = update_calls + 1)
          => /\ entity'.version >= entity.version
             /\ ~entity'.raised =>
                  \A a \in VersionArgOf(kwargs') :
                      IF a.value.kind = "none"
                      THEN entity'.version = entity.version
                      ELSE entity'.version = MaxOf({entity.version, a.n}) + 1]_vars

\* a call supplied the version the entity already had and the version went up
C13_Witness ==
    /\ update_calls >= 1
    /\ ~entity.raised
    /\ \E a \in VersionArgOf(kwargs) :
           /\ a.value.kind # "none"
           /\ a.n = entity_before.version
           /\ entity.version = entity_before.version + 1

\* C14: an entity created with a name keeps that name over every
\* update_attributes call.
C14_NameNeverChanges ==
    [][entity.name.kind = "str" => entity'.name = entity.name]_vars

(***************************************************************************)
(* Claims about Banks                                                      *)
(***************************************************************************)
\* C15: every lookup, of a present or an absent key, returns an entity of the
\* Bank's declared kind; a lookup of an absent key constructs an entity named
\* by the key and stores it; every later lookup of that key returns that same
\* entity; all values of the Bank are of the declared kind.
C15_LookupReturnsDeclaredKind ==
    bank_kind \in BankKinds =>
        /\ \A i \in DOMAIN lookups :
               /\ lookups[i].returned.kind = EntityKinds[bank_kind]
               /\ lookups[i].key \in BankKeys(names_to_metamodels)
               /\ BankGet(names_to_metamodels, lookups[i].key) = lookups[i].returned
               /\ ~lookups[i].present => lookups[i].returned.name = lookups[i].key
               /\ \A j \in DOMAIN lookups :
                      (i < j /\ lookups[j].key = lookups[i].key)
                          => /\ lookups[j].present
                             /\ lookups[j].returned = lookups[i].returned
        /\ \A i \in DOMAIN names_to_metamodels :
               names_to_metamodels[i].entity.kind = EntityKinds[bank_kind]
        /\ \A i, j \in DOMAIN names_to_metamodels :
               names_to_metamodels[i].entity.id = names_to_metamodels[j].entity.id => i = j

\* an absent key was looked up, then another key, then the first key again
C15_Witness ==
    /\ Len(lookups) = 3
    /\ ~lookups[1].present
    /\ ~lookups[2].present
    /\ lookups[2].key # lookups[1].key
    /\ lookups[3].key = lookups[1].key
    /\ lookups[3].returned = lookups[1].returned

(***************************************************************************)
(* Claims about the snapshot run                                           *)
(***************************************************************************)
\* the banks whose extraction has taken place
ExtractedBanks ==
    IF run_pc = "done" THEN BankTypes
    ELSE IF run_pc = "extract" THEN {ExtractOrder[i] : i \in 1..(step - 1)}
    ELSE {}

FilteredOut(b) == ShouldFilterOut(b.kind, b.key, feed)

\* C16: a bank is extracted only after its prepare() has completed; every
\* entity of an extracted bank comes from a builder that survived the bank's
\* filter and had been prepared; a builder that was filtered out is neither
\* prepared nor extracted.
C16_WholeBankBarrier ==
    /\ ExtractedBanks \subseteq prepared_banks
    /\ \A k \in ExtractedBanks : \A n \in Range(model_banks[k]) :
           \E i \in DOMAIN bank_state.made :
               /\ bank_state.made[i].kind = k
               /\ bank_state.made[i].key = n.key
               /\ bank_state.made[i].prepares >= 1
               /\ bank_state.made[i].extracts >= 1
               /\ ~FilteredOut(bank_state.made[i])
    /\ \A i \in DOMAIN bank_state.made :
           /\ bank_state.made[i].extracts >= 1 =>
                  /\ bank_state.made[i].prepares >= 1
                  /\ bank_state.made[i].kind \in prepared_banks
           /\ FilteredOut(bank_state.made[i]) =>
                  /\ bank_state.made[i].prepares = 0
                  /\ bank_state.made[i].extracts = 0

\* the run is over, a topic builder and a node builder were filtered out,
\* and the Topic and Node banks were extracted with entities in them
C16_Witness ==
    /\ run_pc = "done"
    /\ model_banks["TOPIC"] # <<>>
    /\ model_banks["NODE"] # <<>>
    /\ \E i, j \in DOMAIN bank_state.made :
           /\ bank_state.made[i].kind = "TOPIC"
           /\ FilteredOut(bank_state.made[i])
           /\ bank_state.made[j].kind = "NODE"
           /\ FilteredOut(bank_state.made[j])

\* C17 (as stated): no builder of any kind has prepare() invoked on it a
\* second time.
C17_NoBuilderPreparedTwice ==
    \A i \in DOMAIN bank_state.made : bank_state.made[i].prepares <= 1

Survives(i) == i \in Range(bank_state.bank[bank_state.made[i].kind])

\* C17 (amended): a Node, Topic, Action, Service or Parameter builder that
\* survives its bank's filter is prepared exactly once and then extracted
\* exactly once; a Machine builder is prepared once for every node builder
\* left in the Node bank and then extracted exactly once; no builder is
\* prepared after it was extracted or extracted a second time.
C17_PreparedThenExtractedOnce ==
    [][ /\ \A i \in DOMAIN bank_state.made :
               bank_state.made[i].extracts >= 1 =>
                   /\ bank_state'.made[i].prepares = bank_state.made[i].prepares
                   /\ bank_state'.made[i].extracts = bank_state.made[i].extracts
        /\ \A i \in DOMAIN bank_state'.made :
               /\ bank_state'.made[i].extracts <= 1
               /\ bank_state'.made[i].extracts = 1 => bank_state'.made[i].prepares >= 1
               /\ bank_state'.made[i].kind # "MACHINE" => bank_state'.made[i].prepares <= 1
               /\ bank_state'.made[i].kind = "MACHINE" =>
                      bank_state'.made[i].prepares \in {0, Len(bank_state'.bank["NODE"])}
               /\ (run_pc' = "done" /\ i \in Range(bank_state'.bank[bank_state'.made[i].kind])) =>
                      /\ bank_state'.made[i].extracts = 1
                      /\ bank_state'.made[i].kind # "MACHINE" => bank_state'.made[i].prepares = 1
                      /\ bank_state'.made[i].kind = "MACHINE" =>
                             bank_state'.made[i].prepares = Len(bank_state'.bank["NODE"])
      ]_vars

\* the run is over and the machine builder was prepared for two or more
\* node builders, then extracted once
C17_Witness ==
    /\ run_pc = "done"
    /\ \E i \in DOMAIN bank_state.made :
           /\ bank_state.made[i].kind = "MACHINE"
           /\ bank_state.made[i].prepares >= 2
           /\ bank_state.made[i].extracts = 1
    /\ \E i \in DOMAIN bank_state.made :
           /\ bank_state.made[i].kind = "TOPIC"
           /\ Survives(i)
           /\ bank_state.made[i].prepares = 1
           /\ bank_state.made[i].extracts = 1

\* C20: in the extracted model no topic whose name, cut at "/_action", is
\* the name of an Action of the Action bank is left in the Topic bank,
\* whatever the order in which the feed lists the nodes.
C20_NoActionTopicInTopicBank ==
    run_pc = "done" =>
        \A i \in DOMAIN model_banks["TOPIC"] :
            BeforeFirst(model_banks["TOPIC"][i].key, n_action_sep)
                \notin {model_banks["ACTION"][j].key : j \in DOMAIN model_banks["ACTION"]}


(***************************************************************************)
(* Claims about the topic builders of an action                            *)
(***************************************************************************)
FoundSuffixes == {NameSuffix(b.name) : b \in topic_names_to_builders}

HasTopicOfType(suffix, type_end) ==
    \E b \in topic_names_to_builders :
        /\ NameSuffix(b.name) = suffix
        /\ EndsWith(b.type, type_end)

\* C18: validate_action_topic_builders accepts only if the topic builders
\* expose at least 3 distinct suffixes, every found suffix is one of /goal,
\* /cancel, /feedback, /result, /status, and /feedback, /goal and /result
\* are each present with a type ending in ActionFeedback, ActionGoal and
\* ActionResult; a candidate with 2 suffixes or fewer is rejected.
C18_AcceptedOnlyWithCoreTypes ==
    /\ (validated.called /\ validated.result) =>
           /\ Cardinality(FoundSuffixes) >= 3
           /\ FoundSuffixes \subseteq {x_goal, x_cancel, x_feedback, x_result, x_status}
           /\ HasTopicOfType(x_feedback, x_Action \o x_Feedback)
           /\ HasTopicOfType(x_goal, x_Action \o x_Goal)
           /\ HasTopicOfType(x_result, x_Action \o x_Result)
    /\ (validated.called /\ Cardinality(FoundSuffixes) <= 2) => ~validated.result

\* an action with four topic builders, the three core ones among them, was
\* accepted
C18_Witness ==
    /\ validated.called
    /\ validated.result
    /\ Cardinality(topic_names_to_builders) = 4
    /\ action_node_names = NotGathered
    /\ \A b \in topic_names_to_builders : b.published = {}

OnEveryTopic(node_name, published_suffixes, subscribed_suffixes) ==
    /\ \A s \in published_suffixes :
           \E b \in topic_names_to_builders :
               NameSuffix(b.name) = s /\ node_name \in b.published
    /\ \A s \in subscribed_suffixes :
           \E b \in topic_names_to_builders :
               NameSuffix(b.name) = s /\ node_name \in b.subscribed

\* the five topics of the action, /cancel and /goal published by the one
\* node and subscribed by the other, /feedback, /result and /status the
\* other way round
FiveTopicsOfOneClientOneServer ==
    /\ FoundSuffixes = {x_goal, x_cancel, x_feedback, x_result, x_status}
    /\ \A b \in topic_names_to_builders :
           IF NameSuffix(b.name) \in {x_cancel, x_goal}
           THEN b.published = {n_client} /\ b.subscribed = {n_server}
           ELSE b.published = {n_server} /\ b.subscribed = {n_client}

ParentCandidates ==
    {c \in last_call.candidates :
        \E d \in last_call.candidates : ProcOf(last_call.before, d).ppid = c}

\* the candidates left once the parents of candidates, then the candidates
\* whose assigned marker was set, are removed
LeftCandidates ==
    {c \in last_call.candidates \ ParentCandidates :
        ProcOf(last_call.before, c).assigned = NoneStr}

HalfAppearIn(words, s) ==
    2 * Cardinality({i \in DOMAIN words : Contains(words[i], s)}) >= Len(words)

\* some command-line token embeds __ns:=<namespace>, or the namespace is the
\* root
NamespaceFound(proc, namespace) ==
    \/ namespace = <<"/">>
    \/ \E i \in DOMAIN proc.cmdline :
          Contains(<<"_", "_", "n", "s", ":", "=">> \o namespace, proc.cmdline[i])

\* the process name equals node_name, or node_name appears in the last path
\* segment of some token, or the token overlap matches for some token
NameFound(proc, node_name) ==
    \/ proc.name = node_name
    \/ \E i \in DOMAIN proc.cmdline :
          \/ Contains(node_name, LastSeg(proc.cmdline[i], "/"))
          \/ /\ HalfAppearIn(Split(node_name, "_"), LastSeg(proc.cmdline[i], "/"))
             /\ HalfAppearIn(Split(LastSeg(proc.cmdline[i], "/"), "_"), node_name)

\* C26 (as stated): a process is a candidate for (namespace, node_name) if
\* and only if the namespace is found or is the root, and the name is found
\* by equality, containment in a last path segment, or token overlap.
C26_CandidateIffNamespaceAndName ==
    candidate_check.called =>
        (candidate_check.result <=>
            /\ NamespaceFound(candidate_check.proc, candidate_check.namespace)
            /\ NameFound(candidate_check.proc, candidate_check.node_name))

\* C26 (amended): a process is a candidate if and only if its command line
\* is a non-empty list, and the namespace is found or is the root, and the
\* name is found by equality, containment or token overlap.
C26_CandidateIffCmdlineNamespaceAndName ==
    candidate_check.called =>
        (candidate_check.result <=>
            /\ candidate_check.proc.cmdline # <<>>
            /\ NamespaceFound(candidate_check.proc, candidate_check.namespace)
            /\ NameFound(candidate_check.proc, candidate_check.node_name))

\* a process was found a candidate by token overlap alone, its namespace by
\* the __ns:= token
C26_Witness ==
    /\ candidate_check.called
    /\ candidate_check.result
    /\ candidate_check.namespace # <<"/">>
    /\ candidate_check.proc.name # candidate_check.node_name
    /\ \A i \in DOMAIN candidate_check.proc.cmdline :
           ~Contains(candidate_check.node_name, LastSeg(candidate_check.proc.cmdline[i], "/"))

(***************************************************************************)
(* Further claims about the specification reconciler                       *)
(***************************************************************************)
ObservedOfType(type) ==
    {i \in DOMAIN match_in.io_names : match_in.io_builders[match_in.io_names[i]] = type}

EntriesOfType(type) ==
    {i \in DOMAIN match_in.spec_types.data : match_in.spec_types.data[i][2] = type}

\* C27: for a specification map that is a dict, _match_token_types reports
\* the category valid if and only if, for every type, the observed items of
\* that type are at most as many as the specification entries of that type,
\* whatever the names; no specification entry is matched to two observed
\* items.
C27_ValidIffEnoughEntriesOfEachType ==
    (match_out.ret # "not called" /\ match_in.spec_types.set) =>
        /\ match_out.ret \in {"True", "False"}
        /\ match_out.ret = "True" <=>
               \A type \in MatchTypes :
                   Cardinality(ObservedOfType(type)) <= Cardinality(EntriesOfType(type))
        /\ \A n1, n2 \in DOMAIN match_out.io_names :
               (n1 # n2 /\ match_out.io_names[n1] # NoneStr)
                   => match_out.io_names[n1] # match_out.io_names[n2]
        /\ \A n \in DOMAIN match_out.io_names :
               match_out.io_names[n] # NoneStr =>
                   \E i \in DOMAIN match_in.spec_types.data :
                       /\ match_in.spec_types.data[i][1] = match_out.io_names[n]
                       /\ match_in.spec_types.data[i][2] = match_in.io_builders[n]

\* two observed items were matched, one of them to an entry whose token is
\* not in its name
C27_Witness ==
    /\ match_out.ret = "True"
    /\ Len(match_in.io_names) >= 2
    /\ \E n \in DOMAIN match_out.io_names :
           ~Contains(match_out.io_names[n], n)

\* the category map of call i after the learn pass is the prior map extended by
\* exactly one new entry per observed name: prior entries keep key and type, and
\* the map grew by the number of observed names
MergedFaithfully(s, n, i) ==
    LET prior == node_specs[s][AllCalls[i][1]].data
        after == node_specs'[s][AllCalls[i][1]].data
        names == Range(node_bank[n][AllCalls[i][2]])
    IN  /\ \A k \in DictKeys(prior) :
              /\ k \in DictKeys(after)
              /\ DictGet(after, k) = DictGet(prior, k)
        /\ Len(after) = Len(prior) + Cardinality(names)
        /\ \A k \in DictKeys(after) \ DictKeys(prior) :
              \E x \in names : DictGet(after, k) = bank_builders[AllCalls[i][3]][x]

\* C28: the learn pass of _update_node_specification never raises and leaves each
\* category map (parameters included) equal to the prior map plus exactly one new
\* entry per observed name; no prior entry is removed or changes its type.
C28_LearnIsFaithfulMerge ==
    [][\A s \in DOMAIN learned :
          learned'[s] # learned[s] =>
              /\ ~exited'
              /\ \A i \in DOMAIN AllCalls :
                    MergedFaithfully(s, learned'[s][Len(learned'[s])], i)]_vars

\* C29: right after _update_node_specification has learned a specification from
\* a node, _validate_node_builder of that same node against the learned
\* specification reports the node valid.
C29_LearnedNodeValidates ==
    [][\A s \in DOMAIN learned :
          (learned'[s] # learned[s] /\ ~exited') =>
              ValidateNodeBuilder(node_bank[learned'[s][Len(learned'[s])]],
                                  node_specs'[s], bank_builders).ret = "True"]_vars

\* C30: throughout a run every builder held by a bank builder has a name equal
\* to the key it is stored under, and every entity of an extracted bank has a
\* name equal to its key, for every kind of entity.
C30_KeyEqualsName ==
    /\ \A k \in BankTypes : \A i \in Range(bank_state.bank[k]) :
           bank_state.made[i].name = bank_state.made[i].key
    /\ \A k \in DOMAIN model_banks : \A e \in Range(model_banks[k]) : e.name = e.key

(***************************************************************************)
(* Claims about the Filter classes                                         *)
(***************************************************************************)
GetFilterCalls(cls) ==
    {i \in DOMAIN filter_log : filter_log[i].op = "get_filter" /\ filter_log[i].cls = cls}

\* C23: for each filter class, get_filter returns the same instance on every
\* call, an instance of that class built at the class's first call from the
\* flags as they were then, whatever other filter classes were used before.
C23_OneInstancePerClassFromFirstFlags ==
    \A cls \in FilterClasses : \A i \in GetFilterCalls(cls) :
        /\ filter_log[i].returned.cls = cls
        /\ \A j \in GetFilterCalls(cls) : filter_log[j].returned = filter_log[i].returned
        /\ (\A j \in GetFilterCalls(cls) : i <= j) =>
               /\ filter_log[i].returned.built_with.filter_out_debug
                      = filter_log[i].flags.FILTER_OUT_DEBUG
               /\ filter_log[i].returned.built_with.filter_out_tf
                      = filter_log[i].flags.FILTER_OUT_TF

\* C24: should_filter_out(item) is true iff item is in the base exclusion set,
\* or the filter was constructed with debug filtering and item is in the debug
\* set, or it was constructed with transform filtering and item is in the
\* transform set.
C24_FilteredIffInAnEnabledSet ==
    \A i \in DOMAIN filter_log :
        filter_log[i].op = "should_filter_out" =>
            (filter_log[i].answer
                <=> \/ filter_log[i].item \in filter_log[i].base
                    \/ /\ filter_log[i].self.built_with.filter_out_debug
                       /\ filter_log[i].item \in DEBUG_EXCLUSIONS[filter_log[i].self.cls]
                    \/ /\ filter_log[i].self.built_with.filter_out_tf
                       /\ filter_log[i].item \in TF_EXCLUSIONS[filter_log[i].self.cls])

\* a TopicFilter built with debug filtering off was asked about /rosout, after
\* the flag had been switched on, and let it through
C24_Witness ==
    /\ \E i \in DOMAIN filter_log :
           /\ filter_log[i].op = "should_filter_out"
           /\ filter_log[i].self.cls = "TopicFilter"
           /\ ~filter_log[i].self.built_with.filter_out_debug
           /\ filter_log[i].flags.FILTER_OUT_DEBUG
           /\ filter_log[i].item = "/rosout"
           /\ ~filter_log[i].answer

(***************************************************************************)
(* Claims about timeout_call_list_params                                   *)
(***************************************************************************)
\* the main flow leaves the worker alone, and what it has returned stays
WorkerAbandonedResultKept ==
    /\ (wait_pc' # wait_pc /\ wait_pc # "start") => worker' = worker
    /\ wait_pc = "returned" => (wait_pc' = wait_pc /\ wait_result' = wait_result)

\* what was returned, given the state w the worker was seen in
ReturnedFor(w) ==
    IF w.state = "finished" THEN wait_result'.returned = w.value
    ELSE wait_result'.returned = "None"

\* C22: the function returns the call's result if the worker had finished when
\* the wait (thread.join) ended, and None if the worker was then still running
\* or had raised; the worker is never cancelled, and a worker that completes
\* later cannot change the value already returned.
C22_ResultIffFinishedWhenWaitEnded ==
    [][/\ WorkerAbandonedResultKept
       /\ (wait_pc = "return" /\ wait_pc' = "returned") => ReturnedFor(wait_result.at_wait_end)]_vars

\* C22 as the code has it: the function returns the call's result if the
\* worker has finished when thread.is_alive() is tested after the wait, and
\* None if the worker is then still alive, had raised, or could not be
\* started; the worker is never cancelled, and a worker that completes later
\* cannot change the value already returned.
C22_ResultIffFinishedWhenTested ==
    [][/\ WorkerAbandonedResultKept
       /\ (wait_pc = "return" /\ wait_pc' = "returned") => ReturnedFor(wait_result.at_test)
       /\ (wait_pc = "start" /\ wait_pc' = "returned") =>
              (wait_result'.returned = "None" /\ worker'.state = "not started")]_vars

\* the wait timed out with the worker running and None was returned; the
\* worker has since assigned the call's result to result_holder and ended
C22_Witness ==
    /\ wait_pc = "returned"
    /\ worker.state = "finished"
    /\ result_holder # "None"
    /\ wait_result.at_wait_end.state = "running"
    /\ wait_result.at_test.state = "running"
    /\ wait_result.returned = "None"

(***************************************************************************)
(* Claims about main                                                       *)
(***************************************************************************)
\* C21: if snapshot() fails (returns False, or the process ends in it),
\* nothing of the run is saved: neither the deployment model nor the
\* specification model, specifications already learned in memory included.
C21_NothingSavedAfterFailure ==
    /\ snapshot_result \in {"False", "aborted"} => persisted = {}
    /\ snapshot_result = "not called" => persisted = {}

\* main is over after a snapshot() that learned a specification and then
\* failed; an output format had been asked for and nothing was saved
C21_Witness ==
    /\ main_pc \in {"done", "exited"}
    /\ snapshot_result \in {"False", "aborted"}
    /\ specification_update
    /\ options # {}
    /\ persisted = {}
====
